---------------------------- MODULE Spec2Model ----------------------------
(* A model of the aiocometd-mock request pipeline:                         *)
(*   routes.process_request -> validators.run_validators                   *)
(*                          -> adapters.run_adapters (not for handshake)   *)
(*                          -> channel handler                             *)
(* over the session store app["client_ids"].                               *)
EXTENDS Integers, Sequences, FiniteSets, TLC

-----------------------------------------------------------------------------
(* Bounds of the model                                                     *)

\* how many clientIds uuid4 hands out in one run
MaxSessions == 2
\* the wall clock runs from 0 to MaxTime
MaxTime == 1
\* a session takes no further counted request once its count reaches this
MaxCount == 3

-----------------------------------------------------------------------------
(* JSON values                                                             *)

\* dict.get() of a missing key: None
Absent == "<absent>"
\* a JSON null written into a reply
Null == "<null>"
\* a JSON number where a string is expected
NonString == "<number>"
\* a JSON array of strings (a subscription list)
StringList == "<list-of-strings>"
\* a JSON array holding a non-string
MixedList == "<list-with-number>"
\* an "advice" object without a "reconnect" key
NoReconnect == "<advice-without-reconnect>"

\* a threshold that is None
Unset == -1

\* the clientIds uuid4 issues, in the order it issues them
SessionId(n) == "session-" \o ToString(n)
SessionIds == {SessionId(n) : n \in 1..MaxSessions}
\* a clientId string no handshake ever issued
Ghost == "ghost"

MetaChannels == {"/meta/handshake", "/meta/connect", "/meta/subscribe",
                 "/meta/unsubscribe", "/meta/disconnect"}
\* str.startswith("/") over the channel strings of the model
StartsWithSlash(channel) == channel \in MetaChannels \cup {"/foo/bar"}
\* isinstance(v, str) over the field values of the model
IsString(v) == v \notin {Absent, NonString, StringList, MixedList, NoReconnect}


-----------------------------------------------------------------------------
(* Configuration: the app[...] keys create_app copies from the arguments  *)

DefaultConnectInterval == 0
DefaultConnectTimeout == 45000
DefaultReconnectionInterval == 5

\* parse_args([]): every flag at its default
DefaultArgs ==
    [no_validation |-> FALSE,
     connect_interval |-> DefaultConnectInterval,
     connect_timeout |-> DefaultConnectTimeout,
     reconnection_interval |-> DefaultReconnectionInterval,
     reconnection_interval_seconds |-> Unset,
     expire_client_ids_after |-> Unset,
     expire_client_ids_after_seconds |-> Unset]

\* parse_args: the adapters loaded for the thresholds that are set
ParseArgsAdapters(args) ==
    (IF args.reconnection_interval # Unset \/ args.reconnection_interval_seconds # Unset
        THEN <<"reconnect">> ELSE <<>>)
    \o
    (IF args.expire_client_ids_after # Unset \/ args.expire_client_ids_after_seconds # Unset
        THEN <<"expire">> ELSE <<>>)

\* parse_args: the validators loaded unless --no-validation
ParseArgsValidators(args) ==
    IF ~args.no_validation THEN <<"request", "client_id">> ELSE <<>>

-----------------------------------------------------------------------------
(* Requests                                                                *)

\* one element of a batch; isObject is FALSE for a JSON value that is no object
Message(channel, id, clientId, subscription, connectionType, advice) ==
    [isObject |-> TRUE, channel |-> channel, id |-> id, clientId |-> clientId,
     subscription |-> subscription, connectionType |-> connectionType,
     advice |-> advice]

NotAnObject ==
    [isObject |-> FALSE, channel |-> Absent, id |-> Absent, clientId |-> Absent,
     subscription |-> Absent, connectionType |-> Absent, advice |-> Absent]

\* message.get(key) of a JSON value that is an object
Get(message, key) ==
    CASE key = "channel" -> message.channel
      [] key = "id" -> message.id
      [] key = "clientId" -> message.clientId
      [] key = "subscription" -> message.subscription
      [] key = "connectionType" -> message.connectionType
      [] key = "advice" -> message.advice

\* a request body: text that is no JSON, a JSON value that is no list, or a list
Unparseable == [kind |-> "unparseable", msgs |-> <<>>]
NonList == [kind |-> "nonlist", msgs |-> <<>>]
Batch(msgs) == [kind |-> "list", msgs |-> msgs]

\* the messages of the model. Each channel is asked of every issued clientId
\* and of one that was never issued; the malformed variants of a message name
\* the first clientId
HandshakeMessages ==
    {Message("/meta/handshake", "7", Absent, Absent, Absent, Absent),
     Message("/meta/handshake", Absent, Absent, Absent, Absent, Absent)}
    \cup
    {Message("/meta/handshake", "7", cid, Absent, Absent, Absent) : cid \in SessionIds}
ConnectMessages ==
    {Message("/meta/connect", "7", cid, Absent, "long-polling", Absent) :
        cid \in SessionIds \cup {Ghost, Absent, NonString}}
    \cup
    {Message("/meta/connect", "7", cid, Absent, "long-polling", "none") :
        cid \in SessionIds}
    \cup
    {Message("/meta/connect", "7", SessionId(1), Absent, "long-polling", NoReconnect),
     Message("/meta/connect", "7", SessionId(1), Absent, "long-polling", NonString),
     Message("/meta/connect", "7", SessionId(1), Absent, Absent, Absent)}
SubscribeMessages ==
    {Message("/meta/subscribe", "7", cid, "/foo/bar", Absent, Absent) :
        cid \in SessionIds \cup {Ghost}}
    \cup
    {Message("/meta/unsubscribe", "7", cid, "/foo/bar", Absent, Absent) :
        cid \in SessionIds}
    \cup
    {Message("/meta/subscribe", Absent, SessionId(1), sub, Absent, Absent) :
        sub \in {StringList, MixedList, Absent}}
DisconnectMessages ==
    {Message("/meta/disconnect", "7", cid, Absent, Absent, Absent) :
        cid \in SessionIds \cup {Ghost, Absent}}
OtherMessages ==
    {Message("/foo/bar", "7", cid, Absent, Absent, Absent) :
        cid \in SessionIds \cup {Ghost}}
    \cup
    {Message(ch, "7", SessionId(1), Absent, Absent, Absent) : ch \in {"foo", Absent}}

Messages ==
    HandshakeMessages \cup ConnectMessages \cup SubscribeMessages
        \cup DisconnectMessages \cup OtherMessages

\* the batches of two messages
Pairs ==
    {<<Message("/meta/handshake", "7", Absent, Absent, Absent, Absent), NotAnObject>>,
     <<Message("/meta/handshake", "7", Absent, Absent, Absent, Absent),
       Message("/meta/disconnect", "8", SessionId(1), Absent, Absent, Absent)>>,
     <<Message("/meta/connect", "7", SessionId(1), Absent, "long-polling", Absent),
       NotAnObject>>,
     <<Message("/meta/disconnect", "7", SessionId(1), Absent, Absent, Absent),
       Message("/meta/disconnect", "8", SessionId(2), Absent, Absent, Absent)>>,
     <<Message("/meta/subscribe", "7", SessionId(1), "/foo/bar", Absent, Absent),
       Message("/meta/connect", "8", SessionId(1), Absent, Absent, Absent)>>,
     <<Message("/meta/connect", "7", SessionId(1), Absent, "long-polling", Absent),
       Message("/meta/disconnect", "8", SessionId(2), Absent, Absent, Absent)>>}

\* the request bodies the clients of the model send
Bodies ==
    {Unparseable, NonList, Batch(<<>>), Batch(<<NotAnObject>>)}
    \cup {Batch(<<m>>) : m \in Messages}
    \cup {Batch(pair) : pair \in Pairs}

-----------------------------------------------------------------------------
(* Replies                                                                 *)

\* the fields of a reply; by names the code that produced it, json whether the
\* body is the JSON array of one result object, error the parts of the error
\* string between "::"
Blank ==
    [by |-> "none", status |-> 0, json |-> TRUE,
     successful |-> Absent, channel |-> Absent, id |-> Absent,
     clientId |-> Absent, error |-> <<>>, reconnect |-> Absent,
     interval |-> Unset, timeout |-> Unset, subscription |-> Absent,
     version |-> Absent, supportedConnectionTypes |-> Absent]

\* a validator or adapter returning None
NoResponse == Blank

IsResponse(r) == r.by # "none"

\* an exception that leaves process_request: aiohttp answers it with a bare
\* "500 Internal Server Error" text body
Fault == [Blank EXCEPT !.by = "fault", !.status = 500, !.json = FALSE]

\* json.dumps of the result of dict.get(): a missing key is written as null
ToJson(v) == IF v = Absent THEN Null ELSE v

\* what a validator, adapter or handler hands back: the store and its reply
Outcome(client_ids, response) == [client_ids |-> client_ids, response |-> response]

\* await request.json(), with payload = [] when it raises
ParsePayload(body) == IF body.kind = "unparseable" THEN Batch(<<>>) ELSE body

-----------------------------------------------------------------------------
(* validators/request.py                                                   *)

_create_error_response(error_tag, channel, message_id) ==
    [Blank EXCEPT !.by = "validate_request", !.status = 400,
                  !.successful = "false",
                  !.error = <<"400", "bad_request," \o error_tag>>,
                  !.reconnect = "none",
                  !.channel = channel,
                  !.id = message_id]

\* the checks on one message without the one on connectionType
ValidateMessageLax(message) ==
    LET channel == Get(message, "channel")
        message_id == Get(message, "id")
    IN  IF ~message.isObject
           THEN _create_error_response("payload_must_contain_only_json_objects",
                                       Absent, Absent)
        ELSE IF ~IsString(channel) \/ ~StartsWithSlash(channel)
           THEN _create_error_response(
                    "message_must_have_a_channel_field_starting_with_/",
                    channel, message_id)
        ELSE IF channel # "/meta/handshake" /\ ~IsString(Get(message, "clientId"))
           THEN _create_error_response("message_requires_a_string_clientid_field",
                                       channel, message_id)
        ELSE IF /\ channel \in {"/meta/subscribe", "/meta/unsubscribe"}
                /\ ~(\/ IsString(Get(message, "subscription"))
                     \/ Get(message, "subscription") = StringList)
           THEN _create_error_response(
                    "message_requires_a_subscription_field_(string_or_array_of_strings)",
                    channel, message_id)
        ELSE NoResponse

\* the checks validate_request makes on one message of the batch
ValidateMessage(message) ==
    LET channel == Get(message, "channel")
        message_id == Get(message, "id")
    IN  IF ~message.isObject
           THEN _create_error_response("payload_must_contain_only_json_objects",
                                       Absent, Absent)
        ELSE IF ~IsString(channel) \/ ~StartsWithSlash(channel)
           THEN _create_error_response(
                    "message_must_have_a_channel_field_starting_with_/",
                    channel, message_id)
        ELSE IF channel # "/meta/handshake" /\ ~IsString(Get(message, "clientId"))
           THEN _create_error_response("message_requires_a_string_clientid_field",
                                       channel, message_id)
        ELSE IF /\ channel \in {"/meta/subscribe", "/meta/unsubscribe"}
                /\ ~(\/ IsString(Get(message, "subscription"))
                     \/ Get(message, "subscription") = StringList)
           THEN _create_error_response(
                    "message_requires_a_subscription_field_(string_or_array_of_strings)",
                    channel, message_id)
        ELSE IF channel = "/meta/connect" /\ ~IsString(Get(message, "connectionType"))
           THEN _create_error_response(
                    "message_requires_a_string_connectiontype_field",
                    channel, message_id)
        ELSE NoResponse

\* the for loop of validate_request from message i on: the first error wins
RECURSIVE ValidateMessages(_, _)
ValidateMessages(msgs, i) ==
    IF i > Len(msgs) THEN NoResponse
    ELSE IF IsResponse(ValidateMessage(msgs[i])) THEN ValidateMessage(msgs[i])
    ELSE ValidateMessages(msgs, i + 1)

\* validate_request looking at the first message of the batch only
validate_request_first_only(app, client_ids, payload) ==
    IF app.no_validation THEN Outcome(client_ids, NoResponse)
    ELSE IF payload.kind # "list" \/ payload.msgs = <<>>
        THEN Outcome(client_ids,
                _create_error_response("payload_must_be_a_non-empty_list",
                                       Absent, Absent))
    ELSE Outcome(client_ids, ValidateMessage(payload.msgs[1]))

validate_request(app, client_ids, payload) ==
    IF app.no_validation THEN Outcome(client_ids, NoResponse)
    ELSE IF payload.kind # "list" \/ payload.msgs = <<>>
        THEN Outcome(client_ids,
                _create_error_response("payload_must_be_a_non-empty_list",
                                       Absent, Absent))
    ELSE Outcome(client_ids, ValidateMessages(payload.msgs, 1))

-----------------------------------------------------------------------------
(* validators/client_id.py                                                 *)

\* payload[0] raises unless the payload is a non-empty list
HasFirst(payload) == payload.kind = "list" /\ payload.msgs # <<>>
\* payload[0].get raises unless payload[0] is an object
HasFirstObject(payload) == HasFirst(payload) /\ payload.msgs[1].isObject

\* client_info["connection_count"] += 1
IncrementCount(client_ids, client_id) ==
    [client_ids EXCEPT ![client_id].connection_count = @ + 1]

\* validate_client_id without its check of the store
validate_client_id_unchecked(app, client_ids, payload) ==
    IF ~HasFirstObject(payload) THEN Outcome(client_ids, Fault)
    ELSE
    LET client_id == Get(payload.msgs[1], "clientId")
    IN  IF /\ Get(payload.msgs[1], "channel") # "/meta/handshake"
           /\ client_id \in DOMAIN client_ids
            THEN Outcome(IncrementCount(client_ids, client_id), NoResponse)
            ELSE Outcome(client_ids, NoResponse)

validate_client_id(app, client_ids, payload) ==
    IF ~HasFirstObject(payload) THEN Outcome(client_ids, Fault)
    ELSE
    LET request_message == payload.msgs[1]
        client_id == Get(request_message, "clientId")
        channel == Get(request_message, "channel")
    IN  IF channel = "/meta/handshake" THEN Outcome(client_ids, NoResponse)
        ELSE IF client_id = Absent \/ client_id \notin DOMAIN client_ids
            THEN Outcome(client_ids,
                    [Blank EXCEPT !.by = "validate_client_id", !.status = 400,
                                  !.id = ToJson(Get(request_message, "id")),
                                  !.channel = ToJson(channel),
                                  !.successful = "false",
                                  !.error = <<"401", client_id, "unknown_client_id">>,
                                  !.reconnect = "handshake"])
        ELSE Outcome(IncrementCount(client_ids, client_id), NoResponse)

-----------------------------------------------------------------------------
(* validators/__init__.py                                                  *)

RunValidator(name, app, client_ids, payload) ==
    CASE name = "request" -> validate_request(app, client_ids, payload)
      [] name = "client_id" -> validate_client_id(app, client_ids, payload)

\* the for loop of run_validators from validator i on
RECURSIVE RunValidatorsFrom(_, _, _, _, _)
RunValidatorsFrom(chain, i, app, client_ids, payload) ==
    IF i > Len(chain) THEN Outcome(client_ids, NoResponse)
    ELSE LET out == RunValidator(chain[i], app, client_ids, payload)
         IN  IF IsResponse(out.response) THEN out
             ELSE RunValidatorsFrom(chain, i + 1, app, out.client_ids, payload)

\* a loop that keeps calling the validators after one of them has rejected
RECURSIVE RunValidatorsAll(_, _, _, _, _)
RunValidatorsAll(chain, i, app, client_ids, payload) ==
    IF i > Len(chain) THEN Outcome(client_ids, NoResponse)
    ELSE LET out == RunValidator(chain[i], app, client_ids, payload)
             rest == RunValidatorsAll(chain, i + 1, app, out.client_ids, payload)
         IN  IF IsResponse(out.response)
                THEN Outcome(rest.client_ids, out.response)
                ELSE rest

run_validators_all(chain, app, client_ids, payload) ==
    IF app.no_validation THEN Outcome(client_ids, NoResponse)
    ELSE RunValidatorsAll(chain, 1, app, client_ids, payload)

run_validators(chain, app, client_ids, payload) ==
    IF app.no_validation THEN Outcome(client_ids, NoResponse)
    ELSE RunValidatorsFrom(chain, 1, app, client_ids, payload)

-----------------------------------------------------------------------------
(* adapters/reconnect.py, adapters/expire.py, adapters/chaos.py            *)

\* del client_ids[client_id]
Remove(client_ids, client_id) ==
    [c \in DOMAIN client_ids \ {client_id} |-> client_ids[c]]

\* a reset that restarts the count at 0
ResetCountToZero(client_ids, client_id) ==
    [client_ids EXCEPT ![client_id].connection_count = 0]

\* client_info["connection_count"] = 1
ResetCount(client_ids, client_id) ==
    [client_ids EXCEPT ![client_id].connection_count = 1]

\* the advisory one request early: >= where the code has >
ReconnectDueAtLeast(app, client_info, now) ==
    \/ /\ app.reconnection_interval # Unset
       /\ client_info.connection_count >= app.reconnection_interval
    \/ /\ app.reconnection_interval_seconds # Unset
       /\ now - client_info.creation_time >= app.reconnection_interval_seconds

\* the condition under which force_reconnect advises a reconnect
ReconnectDue(app, client_info, now) ==
    \/ /\ app.reconnection_interval # Unset
       /\ client_info.connection_count > app.reconnection_interval
    \/ /\ app.reconnection_interval_seconds # Unset
       /\ now - client_info.creation_time > app.reconnection_interval_seconds

force_reconnect(app, client_ids, now, payload) ==
    IF ~HasFirstObject(payload) THEN Outcome(client_ids, Fault)
    ELSE
    LET request_message == payload.msgs[1]
        client_id == Get(request_message, "clientId")
        channel == Get(request_message, "channel")
    IN  IF /\ client_id \in DOMAIN client_ids
           /\ ReconnectDue(app, client_ids[client_id], now)
        THEN Outcome(ResetCount(client_ids, client_id),
                [Blank EXCEPT !.by = "force_reconnect", !.status = 200,
                      !.id = IF Get(request_message, "id") = Absent
                                THEN "1" ELSE Get(request_message, "id"),
                      !.channel = ToJson(channel),
                      !.clientId = client_id,
                      !.successful = "true",
                      !.reconnect = "retry"])
        ELSE Outcome(client_ids, NoResponse)

\* the removal one step late: > where the code has >=
ExpireDuePast(app, client_info, now) ==
    \/ /\ app.expire_client_ids_after # Unset
       /\ client_info.connection_count > app.expire_client_ids_after
    \/ /\ app.expire_client_ids_after_seconds # Unset
       /\ now - client_info.creation_time > app.expire_client_ids_after_seconds

\* the removal with an unset threshold read as zero
ExpireDueUnsetAsZero(app, client_info, now) ==
    \/ client_info.connection_count >=
            (IF app.expire_client_ids_after = Unset
                THEN 0 ELSE app.expire_client_ids_after)
    \/ now - client_info.creation_time >=
            (IF app.expire_client_ids_after_seconds = Unset
                THEN 0 ELSE app.expire_client_ids_after_seconds)

\* the condition under which expire_client_id removes the session
ExpireDue(app, client_info, now) ==
    \/ /\ app.expire_client_ids_after # Unset
       /\ client_info.connection_count >= app.expire_client_ids_after
    \/ /\ app.expire_client_ids_after_seconds # Unset
       /\ now - client_info.creation_time >= app.expire_client_ids_after_seconds

\* expiry as a sweep: every session that is due goes, whoever the request names
expire_client_id_sweep(app, client_ids, now, payload) ==
    IF ~HasFirstObject(payload) THEN Outcome(client_ids, Fault)
    ELSE
    LET kept == {c \in DOMAIN client_ids : ~ExpireDue(app, client_ids[c], now)}
    IN  Outcome([c \in kept |-> client_ids[c]], NoResponse)

expire_client_id(app, client_ids, now, payload) ==
    IF ~HasFirstObject(payload) THEN Outcome(client_ids, Fault)
    ELSE
    LET client_id == Get(payload.msgs[1], "clientId")
    IN  IF /\ client_id \in DOMAIN client_ids
           /\ ExpireDue(app, client_ids[client_id], now)
        THEN Outcome(Remove(client_ids, client_id), NoResponse)
        ELSE Outcome(client_ids, NoResponse)

\* the status codes of CHAOS_RESPONSES
CHAOS_RESPONSES == {200, 400, 401, 403, 404, 429, 500, 502, 503, 504}

\* chaos, with status_code the code random.choice picked
\* chaos handing the request on whenever the status drawn is not 200
chaos_lenient(status_code, client_ids, payload) ==
    IF HasFirst(payload) /\ ~payload.msgs[1].isObject THEN Outcome(client_ids, Fault)
    ELSE
    LET empty == ~(payload.kind = "list" /\ payload.msgs # <<>>)
        client_id == IF empty \/ Get(payload.msgs[1], "clientId") = Absent
                        THEN "unknown" ELSE Get(payload.msgs[1], "clientId")
        channel == IF empty THEN Null ELSE ToJson(Get(payload.msgs[1], "channel"))
        message_id == IF empty THEN Null ELSE ToJson(Get(payload.msgs[1], "id"))
    IN  IF status_code = 200
        THEN Outcome(client_ids,
                [Blank EXCEPT !.by = "chaos", !.status = 200, !.id = message_id,
                              !.channel = channel, !.clientId = client_id,
                              !.successful = "true"])
        ELSE Outcome(client_ids, NoResponse)

chaos(status_code, client_ids, payload) ==
    IF HasFirst(payload) /\ ~payload.msgs[1].isObject THEN Outcome(client_ids, Fault)
    ELSE
    LET empty == ~(payload.kind = "list" /\ payload.msgs # <<>>)
        client_id == IF empty \/ Get(payload.msgs[1], "clientId") = Absent
                        THEN "unknown" ELSE Get(payload.msgs[1], "clientId")
        channel == IF empty THEN Null ELSE ToJson(Get(payload.msgs[1], "channel"))
        message_id == IF empty THEN Null ELSE ToJson(Get(payload.msgs[1], "id"))
    IN  IF status_code = 200
        THEN Outcome(client_ids,
                [Blank EXCEPT !.by = "chaos", !.status = 200, !.id = message_id,
                              !.channel = channel, !.clientId = client_id,
                              !.successful = "true"])
        ELSE Outcome(client_ids,
                [Blank EXCEPT !.by = "chaos", !.status = status_code,
                              !.json = FALSE])

-----------------------------------------------------------------------------
(* adapters/__init__.py                                                    *)

RunAdapter(name, status_code, app, client_ids, now, payload) ==
    CASE name = "reconnect" -> force_reconnect(app, client_ids, now, payload)
      [] name = "expire" -> expire_client_id(app, client_ids, now, payload)
      [] name = "chaos" -> chaos(status_code, client_ids, payload)

\* the for loop of run_adapters from adapter i on
RECURSIVE RunAdaptersFrom(_, _, _, _, _, _, _)
RunAdaptersFrom(chain, i, status_code, app, client_ids, now, payload) ==
    IF i > Len(chain) THEN Outcome(client_ids, NoResponse)
    ELSE LET out == RunAdapter(chain[i], status_code, app, client_ids, now, payload)
         IN  IF IsResponse(out.response) THEN out
             ELSE RunAdaptersFrom(chain, i + 1, status_code, app,
                                  out.client_ids, now, payload)

\* a loop that keeps calling the adapters after one of them has answered
RECURSIVE RunAdaptersAll(_, _, _, _, _, _, _)
RunAdaptersAll(chain, i, status_code, app, client_ids, now, payload) ==
    IF i > Len(chain) THEN Outcome(client_ids, NoResponse)
    ELSE LET out == RunAdapter(chain[i], status_code, app, client_ids, now, payload)
             rest == RunAdaptersAll(chain, i + 1, status_code, app,
                                    out.client_ids, now, payload)
         IN  IF IsResponse(out.response)
                THEN Outcome(rest.client_ids, out.response)
                ELSE rest

run_adapters_all(chain, status_code, app, client_ids, now, payload) ==
    RunAdaptersAll(chain, 1, status_code, app, client_ids, now, payload)

run_adapters(chain, status_code, app, client_ids, now, payload) ==
    RunAdaptersFrom(chain, 1, status_code, app, client_ids, now, payload)

-----------------------------------------------------------------------------
(* routes.py: the channel handlers                                         *)

\* request_message.get(key, default)
GetOr(message, key, default) ==
    IF Get(message, key) = Absent THEN default ELSE Get(message, key)

\* the session handshake stores under the new clientId
NewSession(now) == [connection_count |-> 1, creation_time |-> now]

\* a handshake that keeps the clientId the request carries
handshake_resumed(client_id, client_ids, now, payload) ==
    LET request_message == payload.msgs[1]
        kept == IF IsString(Get(request_message, "clientId"))
                    THEN Get(request_message, "clientId") ELSE client_id
    IN  Outcome([c \in DOMAIN client_ids \cup {kept} |->
                    IF c = kept THEN NewSession(now) ELSE client_ids[c]],
                [Blank EXCEPT !.by = "handshake", !.status = 200,
                      !.id = GetOr(request_message, "id", "0"),
                      !.channel = "/meta/handshake",
                      !.successful = "true",
                      !.version = "1.0",
                      !.supportedConnectionTypes = "long-polling",
                      !.clientId = kept,
                      !.reconnect = "retry", !.interval = 0, !.timeout = 45000])

\* handshake, with client_id the string uuid4 returned
handshake(client_id, client_ids, now, payload) ==
    LET request_message == payload.msgs[1]
    IN  Outcome([c \in DOMAIN client_ids \cup {client_id} |->
                    IF c = client_id THEN NewSession(now) ELSE client_ids[c]],
                [Blank EXCEPT !.by = "handshake", !.status = 200,
                      !.id = GetOr(request_message, "id", "0"),
                      !.channel = "/meta/handshake",
                      !.successful = "true",
                      !.version = "1.0",
                      !.supportedConnectionTypes = "long-polling",
                      !.clientId = client_id,
                      !.reconnect = "retry", !.interval = 0, !.timeout = 45000])

\* the except branch of process_request: the reply to a fault of a handler
InternalServerError ==
    [Blank EXCEPT !.by = "process_request", !.status = 500,
                  !.successful = "false",
                  !.error = <<"500", "Internal Server Error">>]

\* connect with the advice of the default configuration in place of the
\* configured one
connect_defaulted(adapters, status_code, app, client_ids, now, payload) ==
    LET request_message == payload.msgs[1]
        client_id == Get(request_message, "clientId")
        again == run_adapters(adapters, status_code, app, client_ids, now, payload)
        advice == Get(request_message, "advice")
    IN  IF IsResponse(again.response) THEN again
        ELSE IF advice = NonString
            THEN Outcome(again.client_ids, InternalServerError)
        ELSE Outcome(again.client_ids,
                [Blank EXCEPT !.by = "connect", !.status = 200,
                      !.id = GetOr(request_message, "id", "1"),
                      !.channel = "/meta/connect",
                      !.clientId = ToJson(client_id),
                      !.successful = "true",
                      !.interval = DefaultConnectInterval,
                      !.timeout = DefaultConnectTimeout,
                      !.reconnect = IF advice \in {Absent, NoReconnect}
                                       THEN Absent ELSE advice])

\* connect counting the session once more inside the handler
connect_recounting(adapters, status_code, app, client_ids, now, payload) ==
    LET request_message == payload.msgs[1]
        client_id == Get(request_message, "clientId")
        recounted == IF client_id \in DOMAIN client_ids
                        THEN IncrementCount(client_ids, client_id) ELSE client_ids
        again == run_adapters(adapters, status_code, app, recounted, now, payload)
        advice == Get(request_message, "advice")
    IN  IF IsResponse(again.response) THEN again
        ELSE IF advice = NonString
            THEN Outcome(again.client_ids, InternalServerError)
        ELSE Outcome(again.client_ids,
                [Blank EXCEPT !.by = "connect", !.status = 200,
                      !.id = GetOr(request_message, "id", "1"),
                      !.channel = "/meta/connect",
                      !.clientId = ToJson(client_id),
                      !.successful = "true",
                      !.interval = app.connect_interval,
                      !.timeout = app.connect_timeout,
                      !.reconnect = IF advice \in {Absent, NoReconnect}
                                       THEN Absent ELSE advice])

connect(adapters, status_code, app, client_ids, now, payload) ==
    LET request_message == payload.msgs[1]
        client_id == Get(request_message, "clientId")
        again == run_adapters(adapters, status_code, app, client_ids, now, payload)
        advice == Get(request_message, "advice")
    IN  IF IsResponse(again.response) THEN again
        ELSE IF advice = NonString
            THEN Outcome(again.client_ids, InternalServerError)
        ELSE Outcome(again.client_ids,
                [Blank EXCEPT !.by = "connect", !.status = 200,
                      !.id = GetOr(request_message, "id", "1"),
                      !.channel = "/meta/connect",
                      !.clientId = ToJson(client_id),
                      !.successful = "true",
                      !.interval = app.connect_interval,
                      !.timeout = app.connect_timeout,
                      !.reconnect = IF advice \in {Absent, NoReconnect}
                                       THEN Absent ELSE advice])

\* subscribe and unsubscribe differ in the channel and the default id only
subscribe(channel, client_ids, payload) ==
    LET request_message == payload.msgs[1]
    IN  Outcome(client_ids,
                [Blank EXCEPT !.by = IF channel = "/meta/subscribe"
                                         THEN "subscribe" ELSE "unsubscribe",
                      !.status = 200,
                      !.id = GetOr(request_message, "id",
                                   IF channel = "/meta/subscribe" THEN "2" ELSE "3"),
                      !.channel = channel,
                      !.clientId = ToJson(Get(request_message, "clientId")),
                      !.subscription = GetOr(request_message, "subscription",
                                             "mock-subscription"),
                      !.successful = "true"])

\* the sessions named by the messages from position i on taken out of the store
RECURSIVE RemoveNamed(_, _, _)
RemoveNamed(client_ids, msgs, i) ==
    IF i > Len(msgs) THEN client_ids
    ELSE RemoveNamed(
            IF msgs[i].isObject /\ Get(msgs[i], "clientId") \in DOMAIN client_ids
                THEN Remove(client_ids, Get(msgs[i], "clientId")) ELSE client_ids,
            msgs, i + 1)

\* disconnect applied to every message of the batch
disconnect_all(client_ids, payload) ==
    LET request_message == payload.msgs[1]
        client_id == Get(request_message, "clientId")
    IN  Outcome(RemoveNamed(client_ids, payload.msgs, 1),
                [Blank EXCEPT !.by = "disconnect", !.status = 200,
                      !.id = GetOr(request_message, "id", "4"),
                      !.channel = "/meta/disconnect",
                      !.clientId = ToJson(client_id),
                      !.successful = "true"])

disconnect(client_ids, payload) ==
    LET request_message == payload.msgs[1]
        client_id == Get(request_message, "clientId")
    IN  Outcome(IF client_id \in DOMAIN client_ids
                   THEN Remove(client_ids, client_id) ELSE client_ids,
                [Blank EXCEPT !.by = "disconnect", !.status = 200,
                      !.id = GetOr(request_message, "id", "4"),
                      !.channel = "/meta/disconnect",
                      !.clientId = ToJson(client_id),
                      !.successful = "true"])

UnknownChannel ==
    [Blank EXCEPT !.by = "unknown_channel", !.status = 404,
                  !.successful = "false",
                  !.error = <<"404", "Unknown Channel">>]

\* the if/elif chain of process_request
Dispatch(channel, uuid4, adapters, status_code, app, client_ids, now, payload) ==
    CASE channel = "/meta/handshake" -> handshake(uuid4, client_ids, now, payload)
      [] channel = "/meta/connect" ->
            connect(adapters, status_code, app, client_ids, now, payload)
      [] channel \in {"/meta/subscribe", "/meta/unsubscribe"} ->
            subscribe(channel, client_ids, payload)
      [] channel = "/meta/disconnect" -> disconnect(client_ids, payload)
      [] OTHER -> Outcome(client_ids, UnknownChannel)

\* a channel whose requests would all go through the adapters
SkipsNoChannel(channel) == FALSE

\* the channel process_request does not hand to the adapters
SkipsAdapters(channel) == channel = "/meta/handshake"

\* process_request: the store and the reply after one request
process_request(validators, adapters, uuid4, status_code, app, client_ids, now, body) ==
    LET payload == ParsePayload(body)
        checked == run_validators(validators, app, client_ids, payload)
    IN  IF IsResponse(checked.response) THEN checked
        ELSE IF ~HasFirstObject(payload) THEN Outcome(checked.client_ids, Fault)
        ELSE
        LET channel == Get(payload.msgs[1], "channel")
            adapted == IF ~SkipsAdapters(channel)
                          THEN run_adapters(adapters, status_code, app,
                                            checked.client_ids, now, payload)
                          ELSE Outcome(checked.client_ids, NoResponse)
        IN  IF IsResponse(adapted.response) THEN adapted
            ELSE Dispatch(channel, uuid4, adapters, status_code, app,
                          adapted.client_ids, now, payload)

\* process_request with the clock read twice: the adapters of the dispatcher's
\* pass read time.time() as now, the handler (the creation_time of handshake,
\* the adapters of connect's own pass) as later
process_request_at(validators, adapters, uuid4, status_code, app, client_ids, now, later, body) ==
    LET payload == ParsePayload(body)
        checked == run_validators(validators, app, client_ids, payload)
    IN  IF IsResponse(checked.response) THEN checked
        ELSE IF ~HasFirstObject(payload) THEN Outcome(checked.client_ids, Fault)
        ELSE
        LET channel == Get(payload.msgs[1], "channel")
            adapted == IF ~SkipsAdapters(channel)
                          THEN run_adapters(adapters, status_code, app,
                                            checked.client_ids, now, payload)
                          ELSE Outcome(checked.client_ids, NoResponse)
        IN  IF IsResponse(adapted.response) THEN adapted
            ELSE Dispatch(channel, uuid4, adapters, status_code, app,
                          adapted.client_ids, later, payload)

-----------------------------------------------------------------------------
(* The server as a state machine                                           *)

VARIABLES
    client_ids,   \* app["client_ids"]: clientId -> session
    app,          \* the configuration create_app stored
    validators,   \* validators.validators, the loaded chain
    adapters,     \* adapters.adapters, the loaded chain
    issued,       \* how many clientIds uuid4 has handed out
    now,          \* time.time()
    request,      \* the body of the request being answered
    response,     \* its reply, NoResponse while the server is idle
    before,       \* app["client_ids"] as the request found it
    streak,       \* the run of connects that follows the last handshake
    inflight,     \* the requests whose coroutine has not returned yet
    sys_modules   \* sys.modules: the component modules imported so far

vars == <<client_ids, app, validators, adapters, issued, now, request, response,
          before, streak, inflight, sys_modules>>

\* the configurations of the model: every threshold unset or small
Args(no_validation, ri, ris, ea, eas) ==
    [DefaultArgs EXCEPT !.no_validation = no_validation,
                        !.reconnection_interval = ri,
                        !.reconnection_interval_seconds = ris,
                        !.expire_client_ids_after = ea,
                        !.expire_client_ids_after_seconds = eas]

\* how many of the four thresholds a configuration sets
Thresholds(args) ==
    Cardinality({k \in {"ri", "ris", "ea", "eas"} :
        CASE k = "ri" -> args.reconnection_interval # Unset
          [] k = "ris" -> args.reconnection_interval_seconds # Unset
          [] k = "ea" -> args.expire_client_ids_after # Unset
          [] k = "eas" -> args.expire_client_ids_after_seconds # Unset})

Configs ==
    {args \in {Args(FALSE, ri, ris, ea, eas) :
                    ri \in {Unset, 1, 2}, ris \in {Unset, 0},
                    ea \in {Unset, 1, 2}, eas \in {Unset, 1}} :
        Thresholds(args) <= 2}
    \cup
    {Args(TRUE, ri, Unset, ea, Unset) : ri \in {Unset, 1}, ea \in {Unset, 1}}

\* the command line defaults with one of the expiry thresholds set
DefaultConfigs ==
    {Args(FALSE, DefaultReconnectionInterval, Unset, 1, Unset),
     Args(FALSE, DefaultReconnectionInterval, Unset, Unset, 1)}

EmptyStore == [c \in {} |-> NewSession(0)]

\* no handshake was the last request, or something other than a connect on its
\* clientId has followed it
NoStreak ==
    [client |-> Absent, connects |-> 0, born |-> 0, late |-> 0,
     last |-> "none", prev |-> "none"]

\* the two coroutines of process_request the event loop may hold at a time
Tasks == {"a", "b"}

\* a task that holds no request; at names the await a coroutine is suspended
\* on, seen the count the request's own increment produced, raced whether
\* the other task was waiting for its body when this one ran
FreeTask ==
    [at |-> "free", body |-> Batch(<<>>), reply |-> NoResponse, seen |-> 0,
     raced |-> FALSE]

\* no request is in flight; counted is the number of requests that
\* validate_client_id has counted on a session since its count was last 1
NoneInFlight ==
    [tasks |-> [t \in Tasks |-> FreeTask], counted |-> [c \in {} |-> 0]]

\* create_app(args) in a fresh process
\* the modules whose import has registered the components of a chain
Imported(chain) == {chain[i] : i \in DOMAIN chain}

InitWith(configs) ==
    /\ app \in configs
    /\ validators = ParseArgsValidators(app)
    /\ adapters = ParseArgsAdapters(app)
    /\ client_ids = EmptyStore
    /\ issued = 0
    /\ now = 0
    /\ request = Batch(<<>>)
    /\ response = NoResponse
    /\ before = EmptyStore
    /\ streak = NoStreak
    /\ inflight = NoneInFlight
    /\ sys_modules = Imported(validators) \cup Imported(adapters)

Init == InitWith(Configs)

\* the clientId of the first message, if the body has one
Named(body) ==
    IF HasFirstObject(ParsePayload(body))
        THEN Get(body.msgs[1], "clientId") ELSE Absent

\* the channel of the first message, if the body has one
FirstChannel(body) ==
    IF HasFirstObject(ParsePayload(body))
        THEN Get(body.msgs[1], "channel") ELSE Absent

\* a batch of one well-formed connect message
IsPlainConnect(body) ==
    /\ body.kind = "list" /\ Len(body.msgs) = 1
    /\ FirstChannel(body) = "/meta/connect"
    /\ IsString(Get(body.msgs[1], "connectionType"))
    /\ Get(body.msgs[1], "advice") # NonString

\* the count at which the model stops sending requests to a session
CountCap(args) ==
    IF args.reconnection_interval >= MaxCount
        THEN args.reconnection_interval + 1 ELSE MaxCount

\* the streak after the request: a handshake starts one, a plain connect on its
\* clientId extends it, any other request ends it. connects counts the connects
\* of the streak (CountCap + 1 stands for that many or more), late those issued
\* once the age had reached expire_client_ids_after_seconds (3 stands for 3 or
\* more), last and prev name what produced the last two replies of the streak
Extend(body, reply) ==
    IF reply.by = "handshake"
        THEN [client |-> reply.clientId, connects |-> 0, born |-> now, late |-> 0,
              last |-> "handshake", prev |-> "none"]
    ELSE IF streak.client # Absent /\ IsPlainConnect(body)
            /\ Named(body) = streak.client
        THEN [streak EXCEPT
                !.connects = IF @ <= CountCap(app) THEN @ + 1 ELSE @,
                !.late = IF /\ app.expire_client_ids_after_seconds # Unset
                            /\ now - streak.born >= app.expire_client_ids_after_seconds
                            /\ @ < 3
                            THEN @ + 1 ELSE @,
                !.last = reply.by,
                !.prev = streak.last]
    ELSE NoStreak

\* one POST /cometd: process_request runs to its reply
Request ==
    /\ response = NoResponse
    /\ \E body \in Bodies :
       \E status_code \in IF "chaos" \in {adapters[i] : i \in DOMAIN adapters}
                             THEN CHAOS_RESPONSES ELSE {200} :
       \E out \in {process_request(validators, adapters, SessionId(issued + 1),
                                   status_code, app, client_ids, now, body)} :
            /\ out.response.by = "handshake" => issued < MaxSessions
            /\ Named(body) \in DOMAIN client_ids =>
                    client_ids[Named(body)].connection_count < CountCap(app)
            /\ client_ids' = out.client_ids
            /\ issued' = IF out.response.by = "handshake" THEN issued + 1 ELSE issued
            /\ request' = body
            /\ response' = out.response
            /\ before' = client_ids
            /\ streak' = Extend(body, out.response)
            /\ UNCHANGED <<app, validators, adapters, sys_modules, now, inflight>>

\* the reply has gone out; the server waits for the next request
Reply ==
    /\ response # NoResponse
    /\ response' = NoResponse
    /\ request' = Batch(<<>>)
    /\ before' = EmptyStore
    /\ UNCHANGED <<client_ids, app, validators, adapters, sys_modules, issued, now, streak,
                   inflight>>

\* the clock advances between two requests
Tick ==
    /\ response = NoResponse
    /\ now < MaxTime
    /\ now' = now + 1
    /\ UNCHANGED <<client_ids, app, validators, adapters, sys_modules, issued, request,
                   response, before, streak, inflight>>

Next == Request \/ Reply \/ Tick

Spec == Init /\ [][Next]_vars

SpecDefault == InitWith(DefaultConfigs) /\ [][Next]_vars

\* configurations with no threshold, with one threshold set to 0, and with a
\* time threshold set while the count threshold next to it is unset
ThresholdConfigs ==
    {Args(nv, Unset, Unset, Unset, Unset) : nv \in BOOLEAN}
    \cup
    {Args(nv, 0, Unset, Unset, Unset) : nv \in BOOLEAN}
    \cup
    {Args(FALSE, Unset, 0, Unset, Unset),
     Args(FALSE, Unset, Unset, 0, Unset),
     Args(FALSE, Unset, Unset, Unset, 0),
     Args(FALSE, Unset, Unset, Unset, 1),
     Args(FALSE, Unset, 1, Unset, Unset)}

SpecThresholds == InitWith(ThresholdConfigs) /\ [][Next]_vars

\* the chain load_adapters builds when the caller of create_app names chaos
\* ahead of the adapters parse_args chose
ChaosAdapters(args) == <<"chaos">> \o ParseArgsAdapters(args)

ChaosConfigs ==
    {Args(nv, Unset, Unset, ea, Unset) : nv \in BOOLEAN, ea \in {Unset, 1}}

InitChaos ==
    /\ app \in ChaosConfigs
    /\ validators = ParseArgsValidators(app)
    /\ adapters = ChaosAdapters(app)
    /\ client_ids = EmptyStore
    /\ issued = 0
    /\ now = 0
    /\ request = Batch(<<>>)
    /\ response = NoResponse
    /\ before = EmptyStore
    /\ streak = NoStreak
    /\ inflight = NoneInFlight
    /\ sys_modules = Imported(validators) \cup Imported(adapters)

SpecChaos == InitChaos /\ [][Next]_vars

\* configurations whose --connect-interval and --connect-timeout are not the
\* defaults
TunedConfigs ==
    {[Args(nv, ri, Unset, ea, Unset) EXCEPT !.connect_interval = 1000,
                                             !.connect_timeout = 30000] :
        nv \in BOOLEAN, ri \in {Unset, 2}, ea \in {Unset, 2}}

SpecTuned == InitWith(TunedConfigs) /\ [][Next]_vars

\* configurations with a time threshold, and one with count thresholds only
ClockConfigs ==
    {Args(nv, Unset, 0, Unset, Unset) : nv \in BOOLEAN}
    \cup
    {Args(FALSE, Unset, Unset, Unset, 1),
     Args(FALSE, 2, Unset, 2, Unset)}

\* one POST /cometd on /meta/connect during which the clock moves on: the
\* adapters called by connect read a later time.time() than those called by
\* process_request
RequestAcrossTick ==
    /\ response = NoResponse
    /\ now < MaxTime
    /\ \E body \in Bodies :
       \E out \in {process_request_at(validators, adapters, SessionId(issued + 1),
                                      200, app, client_ids, now, now + 1, body)} :
            /\ FirstChannel(body) = "/meta/connect"
            /\ Named(body) \in DOMAIN client_ids =>
                    client_ids[Named(body)].connection_count < CountCap(app)
            /\ client_ids' = out.client_ids
            /\ now' = now + 1
            /\ request' = body
            /\ response' = out.response
            /\ before' = client_ids
            /\ streak' = Extend(body, out.response)
            /\ UNCHANGED <<app, validators, adapters, sys_modules, issued, inflight>>

NextClock == Request \/ RequestAcrossTick \/ Reply \/ Tick

SpecClock == InitWith(ClockConfigs) /\ [][NextClock]_vars

\* configurations with both count thresholds, the expiry threshold below, at
\* and above the reconnect threshold, and one with the age threshold of the
\* advisory
LiveConfigs ==
    {Args(FALSE, ri, Unset, ea, Unset) : ri \in {1, 2}, ea \in {1, 2, 3}}
    \cup
    {Args(FALSE, Unset, 0, Unset, Unset)}

\* the server at work: a reply process_request has returned is sent, as aiohttp
\* writes the response of a handler that has returned; whether further requests
\* arrive is up to the clients
SpecLive == InitWith(LiveConfigs) /\ [][Next]_vars /\ WF_vars(Reply)

-----------------------------------------------------------------------------
(* create_app called again in the same process                             *)

\* the modules of the packages validators and adapters
ValidatorModules == {"request", "client_id"}
AdapterModules == {"reconnect", "expire", "chaos"}

\* the for loop over importlib.import_module from name i on: a module that is
\* not in sys.modules yet is executed and its decorator appends the component to
\* the chain; a module imported before is handed back from sys.modules without
\* being executed, so nothing is registered; a name that is no module raises
\* ImportError, which is caught
RECURSIVE ImportFrom(_, _, _, _, _)
ImportFrom(names, i, package, chain, modules) ==
    IF i > Len(names) THEN [chain |-> chain, sys_modules |-> modules]
    ELSE IF names[i] \in package /\ names[i] \notin modules
        THEN ImportFrom(names, i + 1, package, Append(chain, names[i]),
                        modules \cup {names[i]})
    ELSE ImportFrom(names, i + 1, package, chain, modules)

\* adapters.clear() and the imports
load_adapters(adapter_names, modules) ==
    ImportFrom(adapter_names, 1, AdapterModules, <<>>, modules)

\* validators.clear() and the imports
load_validators(validator_names, modules) ==
    ImportFrom(validator_names, 1, ValidatorModules, <<>>, modules)

\* the argument lists create_app is called with
ReloadConfigs ==
    {Args(FALSE, 2, Unset, Unset, Unset),
     Args(FALSE, Unset, Unset, 1, Unset),
     Args(TRUE, Unset, Unset, Unset, Unset)}

\* the first create_app of the process
InitReload ==
    /\ app \in ReloadConfigs
    /\ adapters = load_adapters(ParseArgsAdapters(app), {}).chain
    /\ validators = load_validators(ParseArgsValidators(app), {}).chain
    /\ sys_modules = load_validators(ParseArgsValidators(app),
                        load_adapters(ParseArgsAdapters(app), {}).sys_modules
                      ).sys_modules
    /\ client_ids = EmptyStore
    /\ issued = 0
    /\ now = 0
    /\ request = Batch(<<>>)
    /\ response = NoResponse
    /\ before = EmptyStore
    /\ streak = NoStreak
    /\ inflight = NoneInFlight

\* create_app called again: a new application with an empty store, the chains
\* of the process loaded anew, adapters first
CreateApp ==
    /\ response = NoResponse
    /\ \E args \in ReloadConfigs :
        LET loaded == load_adapters(ParseArgsAdapters(args), sys_modules)
            reloaded == load_validators(ParseArgsValidators(args),
                                        loaded.sys_modules)
        IN  /\ app' = args
            /\ client_ids' = EmptyStore
            /\ adapters' = loaded.chain
            /\ validators' = reloaded.chain
            /\ sys_modules' = reloaded.sys_modules
    /\ streak' = NoStreak
    /\ UNCHANGED <<issued, now, request, response, before, inflight>>

NextReload == CreateApp \/ Request \/ Reply \/ Tick

SpecReload == InitReload /\ [][NextReload]_vars

-----------------------------------------------------------------------------
(* Two requests in flight on the event loop                                *)

\* every await of process_request taken as a point where the loop switches
SuspendsAtEveryAwait(point) == TRUE

\* the awaits of process_request at which the coroutine hands control back to
\* the event loop: only the read of the body; the validators, the adapters
\* and the handlers are coroutines without an await on input or output, so
\* awaiting them runs them to their return
Suspends(point) == point = "json"

\* where a coroutine stands after a run, and what it has done to the store
Stand(store, reply, at) == [client_ids |-> store, response |-> reply, at |-> at]

\* from the return of run_adapters to the reply of the handler
FromAdapters(store, body, uuid4) ==
    LET out == Dispatch(FirstChannel(body), uuid4, adapters, 200, app, store,
                        now, ParsePayload(body))
    IN  Stand(out.client_ids, out.response, "done")

\* from the return of run_validators on
FromValidators(store, body, uuid4) ==
    LET adapted == IF ~SkipsAdapters(FirstChannel(body))
                      THEN run_adapters(adapters, 200, app, store, now,
                                        ParsePayload(body))
                      ELSE Outcome(store, NoResponse)
    IN  IF IsResponse(adapted.response)
            THEN Stand(adapted.client_ids, adapted.response, "done")
        ELSE IF Suspends("adapters")
            THEN Stand(adapted.client_ids, NoResponse, "adapters")
        ELSE FromAdapters(adapted.client_ids, body, uuid4)

\* from the return of request.json() on
FromJson(store, body, uuid4) ==
    LET checked == run_validators(validators, app, store, ParsePayload(body))
    IN  IF IsResponse(checked.response)
            THEN Stand(checked.client_ids, checked.response, "done")
        ELSE IF ~HasFirstObject(ParsePayload(body))
            THEN Stand(checked.client_ids, Fault, "done")
        ELSE IF Suspends("validators")
            THEN Stand(checked.client_ids, NoResponse, "validators")
        ELSE FromValidators(checked.client_ids, body, uuid4)

\* the coroutine runs from the await it is suspended on to the next one
Advance(point, store, body, uuid4) ==
    CASE point = "json" -> FromJson(store, body, uuid4)
      [] point = "validators" -> FromValidators(store, body, uuid4)
      [] point = "adapters" -> FromAdapters(store, body, uuid4)

\* the count validate_client_id leaves on the session the body names, 0 when
\* the request does not get past the validators
SeenCount(store, body) ==
    LET checked == run_validators(validators, app, store, ParsePayload(body))
    IN  IF /\ ~IsResponse(checked.response)
           /\ FirstChannel(body) # "/meta/handshake"
           /\ Named(body) \in DOMAIN checked.client_ids
            THEN checked.client_ids[Named(body)].connection_count
            ELSE 0

\* the requests of the clients that race: handshakes and connects
ConcurrentBodies ==
    {Batch(<<Message("/meta/handshake", "7", Absent, Absent, Absent, Absent)>>)}
    \cup {Batch(<<Message("/meta/connect", "7", cid, Absent, "long-polling",
                          Absent)>>) : cid \in SessionIds}

\* the configurations of the race: only the count threshold of the advisory
ConcurrentConfigs == {Args(FALSE, ri, Unset, Unset, Unset) : ri \in {1, 2}}

\* aiohttp starts a coroutine of process_request for a request that arrives
Receive(t) ==
    /\ inflight.tasks[t].at = "free"
    /\ \E body \in ConcurrentBodies :
            inflight' = [inflight EXCEPT
                            !.tasks[t] = [FreeTask EXCEPT !.at = "json",
                                                          !.body = body]]
    /\ UNCHANGED <<client_ids, app, validators, adapters, sys_modules, issued, now, request,
                   response, before, streak>>

\* the event loop resumes a suspended coroutine, which runs to its next
\* suspension or to its reply
Resume(t) ==
    LET task == inflight.tasks[t]
        out == Advance(task.at, client_ids, task.body, SessionId(issued + 1))
        seen == IF task.at = "json" THEN SeenCount(client_ids, task.body)
                ELSE task.seen
    IN  /\ task.at \in {"json", "validators", "adapters"}
        /\ out.response.by = "handshake" => issued < MaxSessions
        /\ client_ids' = out.client_ids
        /\ issued' = IF out.response.by = "handshake" THEN issued + 1 ELSE issued
        /\ inflight' =
              [tasks |-> [inflight.tasks EXCEPT
                            ![t] = [task EXCEPT
                                      !.at = out.at,
                                      !.reply = out.response,
                                      !.seen = seen,
                                      !.raced = IF task.at = "json"
                                                  THEN \E u \in Tasks \ {t} :
                                                        inflight.tasks[u].at = "json"
                                                  ELSE @]],
               counted |-> [c \in DOMAIN out.client_ids |->
                              IF c \notin DOMAIN client_ids THEN 0
                              ELSE IF /\ c = Named(task.body)
                                      /\ out.response.by = "force_reconnect"
                                  THEN 0
                              ELSE IF /\ c = Named(task.body)
                                      /\ task.at = "json" /\ seen > 0
                                  THEN inflight.counted[c] + 1
                              ELSE inflight.counted[c]]]
        /\ UNCHANGED <<app, validators, adapters, sys_modules, now, request, response, before,
                       streak>>

\* the reply of a coroutine that has returned goes out
Send(t) ==
    /\ inflight.tasks[t].at = "done"
    /\ inflight' = [inflight EXCEPT !.tasks[t] = FreeTask]
    /\ UNCHANGED <<client_ids, app, validators, adapters, sys_modules, issued, now, request,
                   response, before, streak>>

NextConcurrent == \E t \in Tasks : Receive(t) \/ Resume(t) \/ Send(t)

SpecConcurrent == InitWith(ConcurrentConfigs) /\ [][NextConcurrent]_vars

-----------------------------------------------------------------------------
(* What the claims speak of                                                *)

\* a request has been answered and its reply has not gone out yet
Replied == response # NoResponse

\* the reply validate_client_id gives for a clientId the store does not hold
UnknownClientIdError(reply) ==
    /\ reply.successful = "false"
    /\ reply.reconnect = "handshake"
    /\ Len(reply.error) = 3 /\ reply.error[3] = "unknown_client_id"

\* the body has a first message and its channel is not /meta/handshake
NonHandshake(body) ==
    HasFirstObject(ParsePayload(body)) /\ FirstChannel(body) # "/meta/handshake"

\* validate_request finds nothing wrong with the body
WellFormed(body) ==
    ~IsResponse(validate_request([app EXCEPT !.no_validation = FALSE],
                                 EmptyStore, ParsePayload(body)).response)

\* the request named a session that was in the store when it arrived
NamedActive == Named(request) \in DOMAIN before

\* the request is a connect of the streak that follows a handshake
InStreak ==
    /\ Replied /\ IsPlainConnect(request)
    /\ streak.client # Absent /\ streak.client = Named(request)

\* only the count threshold of the reconnect advisory is set
OnlyReconnectionInterval ==
    /\ app.reconnection_interval >= 1
    /\ app.reconnection_interval_seconds = Unset
    /\ app.expire_client_ids_after = Unset
    /\ app.expire_client_ids_after_seconds = Unset

Max(a, b) == IF a >= b THEN a ELSE b

-----------------------------------------------------------------------------
(* C1: a non-handshake request on a clientId that is not in the store      *)

\* C1 as claimed: under every configuration, a non-handshake request whose
\* clientId is not an ACTIVE session is answered with UnknownClientIdError and
\* leaves the store as it was
C1_UnknownAlways ==
    Replied /\ NonHandshake(request) /\ ~NamedActive
        => UnknownClientIdError(response) /\ client_ids = before

\* C1 as amended: such a request leaves the store as it was under every
\* configuration; with validation enabled it is rejected with HTTP 400 and
\* successful false, by UnknownClientIdError naming the clientId when the batch
\* is structurally valid and by the structural validator's error otherwise
C1_UnknownWhenValidated ==
    Replied /\ NonHandshake(request) /\ ~NamedActive
        => /\ client_ids = before
           /\ ~app.no_validation =>
                /\ response.status = 400 /\ response.successful = "false"
                /\ WellFormed(request) =>
                      /\ UnknownClientIdError(response)
                      /\ response.error[2] = Named(request)
                /\ ~WellFormed(request) => response.by = "validate_request"

\* a connect on a clientId a disconnect has removed is turned away
C1_Witness ==
    /\ Replied /\ ~app.no_validation
    /\ FirstChannel(request) = "/meta/connect"
    /\ Named(request) = SessionId(1) /\ issued >= 1 /\ ~NamedActive
    /\ UnknownClientIdError(response)
    /\ client_ids = before /\ before # EmptyStore

-----------------------------------------------------------------------------
(* C2: disconnect removes the session                                      *)

\* C2 as claimed: a disconnect on an ACTIVE clientId removes it from the store
\* and is answered with the successful disconnect response
C2_DisconnectRemoves ==
    (/\ Replied /\ request.kind = "list" /\ Len(request.msgs) = 1
     /\ FirstChannel(request) = "/meta/disconnect"
     /\ NamedActive)
        => /\ Named(request) \notin DOMAIN client_ids
           /\ response.by = "disconnect"
           /\ response.status = 200 /\ response.successful = "true"

-----------------------------------------------------------------------------
(* C3: the connect on which the reconnect advisory fires                   *)

\* C3 as claimed: with reconnectionInterval = n >= 1 and no other threshold,
\* the first n-1 connects after the handshake get the normal response without
\* advice.reconnect and the n-th gets advice.reconnect = "retry"; with n = 1 so
\* does the second
C3_AdvisoryOnNth ==
    InStreak /\ OnlyReconnectionInterval
        => /\ streak.connects < app.reconnection_interval
                => response.by = "connect" /\ response.reconnect = Absent
           /\ streak.connects = app.reconnection_interval
                => response.reconnect = "retry"
           /\ app.reconnection_interval = 1 /\ streak.connects = 2
                => response.reconnect = "retry"

\* C3 as amended: with validation enabled, the first n-1 connects get the
\* normal connect response, whose advice carries a reconnect field only when the
\* request supplied one, and the n-th is answered by the advisory with
\* advice.reconnect = "retry"; with n = 1 so is the second
C3_AdvisoryOnNthValidated ==
    InStreak /\ OnlyReconnectionInterval /\ ~app.no_validation
        => /\ streak.connects < app.reconnection_interval
                => /\ response.by = "connect"
                   /\ Get(request.msgs[1], "advice") = Absent
                        => response.reconnect = Absent
           /\ streak.connects = app.reconnection_interval
                => response.by = "force_reconnect" /\ response.reconnect = "retry"
           /\ app.reconnection_interval = 1 /\ streak.connects = 2
                => response.by = "force_reconnect" /\ response.reconnect = "retry"

\* the second connect after a handshake under reconnectionInterval = 2
C3_Witness ==
    /\ InStreak /\ OnlyReconnectionInterval /\ ~app.no_validation
    /\ app.reconnection_interval = 2 /\ streak.connects = 2
    /\ streak.last = "force_reconnect" /\ streak.prev = "connect"
    /\ response.reconnect = "retry"

-----------------------------------------------------------------------------
(* C4: the connection count between resets                                 *)

\* C4: with reconnectionInterval = n set, the count of a session that stays in
\* the store never decreases except by a reset to exactly 1, and between
\* requests the count of every session is at most max(n, 1)
C4_CountBounded ==
    app.reconnection_interval # Unset
        => /\ \A c \in DOMAIN client_ids :
                client_ids[c].connection_count
                    <= Max(app.reconnection_interval, 1)
           /\ Replied =>
                \A c \in DOMAIN client_ids \cap DOMAIN before :
                    \/ client_ids[c].connection_count >= before[c].connection_count
                    \/ client_ids[c].connection_count = 1

\* a request finds the count at n = 2 and the advisory resets it to 1
C4_Witness ==
    /\ Replied /\ app.reconnection_interval = 2 /\ NamedActive
    /\ before[Named(request)].connection_count = 2
    /\ response.by = "force_reconnect"
    /\ client_ids[Named(request)].connection_count = 1

-----------------------------------------------------------------------------
(* C5: expiry after a number of connects                                   *)

\* only the count threshold of the expiry is set, and validation is enabled
OnlyExpireAfter ==
    /\ ~app.no_validation
    /\ app.expire_client_ids_after >= 1
    /\ app.expire_client_ids_after_seconds = Unset
    /\ app.reconnection_interval = Unset
    /\ app.reconnection_interval_seconds = Unset

\* C5 as claimed: with expireAfter = k, the k-th connect after the handshake
\* succeeds and leaves the session ACTIVE, and the request after it is answered
\* with UnknownClientIdError
C5_ActiveThroughKth ==
    InStreak /\ OnlyExpireAfter
        => /\ streak.connects = app.expire_client_ids_after
                => /\ response.by = "connect" /\ response.successful = "true"
                   /\ streak.client \in DOMAIN client_ids
           /\ streak.connects = app.expire_client_ids_after + 1
                => UnknownClientIdError(response)

-----------------------------------------------------------------------------
(* C6: expiry after a number of seconds                                    *)

\* only the age threshold of the expiry is set, and validation is enabled
OnlyExpireAfterSeconds ==
    /\ ~app.no_validation
    /\ app.expire_client_ids_after_seconds >= 1
    /\ app.expire_client_ids_after = Unset
    /\ app.reconnection_interval = Unset
    /\ app.reconnection_interval_seconds = Unset

\* C6 as claimed: with expireAfterSeconds = s, a connect on a session at the
\* time of its creation succeeds, and a connect that arrives once the session's
\* age is s or more is itself answered with UnknownClientIdError
C6_LateConnectRejected ==
    (/\ Replied /\ IsPlainConnect(request) /\ NamedActive
     /\ OnlyExpireAfterSeconds)
        => LET age == now - before[Named(request)].creation_time
           IN  /\ age = 0 => response.by = "connect" /\ response.successful = "true"
               /\ age >= app.expire_client_ids_after_seconds
                    => UnknownClientIdError(response)

-----------------------------------------------------------------------------
(* C7: --expire-client-ids-after 1, as tests/test_main.py runs it          *)

\* C7 as claimed: with expireAfter = 1 and every other option at its default,
\* the first and the second connect after the handshake get HTTP 200 and the
\* third gets HTTP 400 with successful false and unknown_client_id in its error
C7_ThirdConnectFails ==
    InStreak /\ app = [DefaultArgs EXCEPT !.expire_client_ids_after = 1]
        => /\ streak.connects \in {1, 2} => response.status = 200
           /\ streak.connects = 3
                => /\ response.status = 400
                   /\ UnknownClientIdError(response)

-----------------------------------------------------------------------------
(* C8: --expire-client-ids-after-seconds, as tests/test_main.py runs it    *)

\* every option but expire_client_ids_after_seconds is at its default
DefaultWithExpireSeconds ==
    /\ app.expire_client_ids_after_seconds >= 1
    /\ app = [DefaultArgs EXCEPT !.expire_client_ids_after_seconds =
                                        app.expire_client_ids_after_seconds]

-----------------------------------------------------------------------------
(* C9: the clientIds handshake issues                                      *)

\* the clientIds issued before the request being answered
IssuedBefore ==
    {SessionId(i) : i \in 1..(IF Replied /\ response.by = "handshake"
                                THEN issued - 1 ELSE issued)}

\* C9: every handshake, whatever clientId the request carries, adds exactly one
\* session under a clientId never issued before and leaves the sessions of the
\* store as they were; a clientId enters the store in no other way, so one that
\* was removed is never ACTIVE again
C9_HandshakeFresh ==
    /\ DOMAIN client_ids \subseteq {SessionId(i) : i \in 1..issued}
    /\ Replied =>
        /\ \A c \in DOMAIN client_ids \ DOMAIN before :
                response.by = "handshake" /\ c = response.clientId
        /\ (/\ request.kind = "list" /\ Len(request.msgs) = 1
            /\ FirstChannel(request) = "/meta/handshake")
                => response.by = "handshake"
        /\ response.by = "handshake" =>
                /\ response.clientId \notin IssuedBefore
                /\ response.clientId \notin DOMAIN before
                /\ DOMAIN client_ids = DOMAIN before \cup {response.clientId}
                /\ client_ids[response.clientId] = NewSession(now)
                /\ \A c \in DOMAIN before : client_ids[c] = before[c]

\* a handshake that carries the clientId of a session in use gets a new one and
\* leaves that session as it was
C9_Witness ==
    /\ Replied /\ response.by = "handshake"
    /\ Named(request) = SessionId(1) /\ NamedActive
    /\ before[SessionId(1)].connection_count = 2
    /\ response.clientId = SessionId(2)
    /\ DOMAIN client_ids = {SessionId(1), SessionId(2)}
    /\ client_ids[SessionId(1)] = before[SessionId(1)]

-----------------------------------------------------------------------------
(* C10: --no-validation                                                    *)

\* what answers a request that reached the dispatch on the channel
Handlers ==
    {"handshake", "connect", "subscribe", "unsubscribe", "disconnect",
     "unknown_channel"}

\* C10 as claimed: with noValidation set, every request body, an unparseable
\* one, an empty list and a non-list included, is answered by the handler of
\* its channel; a disconnect without clientId gets HTTP 400 with validation
\* enabled and HTTP 200 with successful true without
C10_BypassRunsHandler ==
    /\ Replied /\ app.no_validation => response.by \in Handlers
    /\ (/\ Replied /\ request.kind = "list" /\ Len(request.msgs) = 1
        /\ FirstChannel(request) = "/meta/disconnect"
        /\ Named(request) = Absent)
            => IF app.no_validation
                    THEN response.status = 200 /\ response.successful = "true"
                    ELSE response.status = 400 /\ response.successful = "false"

-----------------------------------------------------------------------------
(* C11: a first message without a field its channel requires               *)

\* the fields the channel of a message requires
RequiredFields(channel) ==
    CASE channel = "/meta/handshake" -> {"id", "channel"}
      [] channel = "/meta/connect" -> {"clientId", "id"}
      [] channel \in {"/meta/subscribe", "/meta/unsubscribe"}
            -> {"clientId", "subscription"}
      [] channel = "/meta/disconnect" -> {"clientId"}
      [] OTHER -> {}

\* the first message of the body is on a meta channel and lacks a field of it
LacksRequiredField(body) ==
    /\ HasFirstObject(ParsePayload(body))
    /\ \E key \in RequiredFields(FirstChannel(body)) :
            Get(body.msgs[1], key) = Absent

\* C11 as claimed: with validation enabled, a batch whose first message lacks a
\* field its channel requires is answered with HTTP 400, successful false and
\* an error that contains missing_required_fields
C11_MissingFieldReported ==
    Replied /\ ~app.no_validation /\ LacksRequiredField(request)
        => /\ response.status = 400 /\ response.successful = "false"
           /\ \E i \in DOMAIN response.error :
                    response.error[i] = "missing_required_fields"

-----------------------------------------------------------------------------
(* C12: a validator that rejects ends the request                          *)

\* C12: with validation enabled, when validate_request rejects the batch, or
\* passes it and validate_client_id rejects it, that validator's error is the
\* reply of the request and the store is left as the request found it: no later
\* validator, no adapter and no handler has acted
C12_RejectionEndsRequest ==
    Replied /\ ~app.no_validation
        => LET payload == ParsePayload(request)
               first == validate_request(app, before, payload).response
               second == validate_client_id(app, before, payload).response
           IN  /\ IsResponse(first)
                    => response = first /\ client_ids = before
               /\ ~IsResponse(first) /\ IsResponse(second)
                    => response = second /\ client_ids = before
               /\ response.by \in {"validate_request", "validate_client_id"}
                    => client_ids = before /\ response \in {first, second}

\* a batch whose first message is a connect on a session of the store is
\* rejected for its second message, and the count of the session stays
C12_Witness ==
    /\ Replied /\ ~app.no_validation
    /\ response.by = "validate_request"
    /\ Len(request.msgs) = 2
    /\ FirstChannel(request) = "/meta/connect" /\ NamedActive
    /\ client_ids = before

-----------------------------------------------------------------------------
(* C13: the first adapter that answers ends the request                    *)

\* the session the request names as the adapters find it: validate_client_id
\* has counted the request when it is loaded
Counted ==
    IF app.no_validation THEN before[Named(request)]
    ELSE IncrementCount(before, Named(request))[Named(request)]

\* the request reaches the adapter chain with the reconnect advisory due
AdvisoryDue ==
    /\ Replied /\ NonHandshake(request) /\ NamedActive
    /\ app.no_validation \/ WellFormed(request)
    /\ Len(adapters) >= 1 /\ adapters[1] = "reconnect"
    /\ ReconnectDue(app, Counted, now)

\* C13: the adapters are consulted in the order reconnect, expire; when the
\* reconnect adapter answers, its advisory is the reply and all the request
\* leaves in the store is the reset of the count: the expiry adapter after it
\* and the channel handler, disconnect included, remove nothing
C13_FirstAnswerEndsRequest ==
    /\ AdvisoryDue => response.by = "force_reconnect"
    /\ Replied /\ response.by = "force_reconnect"
        => /\ AdvisoryDue
           /\ response = force_reconnect(
                            app, [before EXCEPT ![Named(request)] = Counted],
                            now, ParsePayload(request)).response
           /\ client_ids = ResetCount(before, Named(request))

\* a disconnect is answered by the advisory while the expiry is due as well,
\* and the session stays in the store
C13_Witness ==
    /\ AdvisoryDue /\ adapters = <<"reconnect", "expire">>
    /\ FirstChannel(request) = "/meta/disconnect"
    /\ ExpireDue(app, Counted, now)
    /\ response.by = "force_reconnect"
    /\ Named(request) \in DOMAIN client_ids

-----------------------------------------------------------------------------
(* C14: a handshake never goes through the adapters                        *)

\* C14: a handshake that passes validation, or arrives with validation off, is
\* answered by the handshake response with a clientId that is new in the store,
\* whatever the thresholds and whatever session its own clientId names; the
\* sessions the request found are all still there and as they were
C14_HandshakeSkipsAdapters ==
    (/\ Replied /\ FirstChannel(request) = "/meta/handshake"
     /\ app.no_validation \/ WellFormed(request))
        => /\ response.by = "handshake"
           /\ response.status = 200 /\ response.successful = "true"
           /\ response.reconnect = "retry"
           /\ response.clientId \in DOMAIN client_ids \ DOMAIN before
           /\ \A c \in DOMAIN before :
                c \in DOMAIN client_ids /\ client_ids[c] = before[c]

\* a handshake names a session for which both the advisory and the expiry are
\* due, and is answered as a handshake with that session left in the store
C14_Witness ==
    /\ Replied /\ FirstChannel(request) = "/meta/handshake" /\ NamedActive
    /\ adapters = <<"reconnect", "expire">>
    /\ ReconnectDue(app, before[Named(request)], now)
    /\ ExpireDue(app, before[Named(request)], now)
    /\ response.by = "handshake"
    /\ Named(request) \in DOMAIN client_ids

-----------------------------------------------------------------------------
(* C15: error outcomes and the store                                       *)

\* C15 as claimed: a request that ends in an error other than the 500 fault (a
\* validation error, unknown clientId or unknown channel, so HTTP 400 or 404)
\* leaves the store, every connection_count included, as it found it
C15_ErrorsLeaveStore ==
    Replied /\ response.successful = "false" /\ response.status \in {400, 404}
        => client_ids = before

-----------------------------------------------------------------------------
(* C16: every reply is a JSON array of one result                          *)

\* C16 as claimed: whatever the body and the configuration, the reply is a JSON
\* array of one result object, and a fault raised while the request is
\* processed comes out as a 500 result with successful false
C16_AlwaysAnEnvelope ==
    Replied
        => /\ response.json
           /\ response.successful \in {"true", "false"}
           /\ response.status = 500 => response.successful = "false"

-----------------------------------------------------------------------------
(* C17: the fields of a result                                             *)

\* the HTTP status codes that lead the error strings
StatusCodes == {"400", "401", "404", "500"}

\* C17 as claimed: the result object of every reply has a channel field and a
\* boolean successful field, and a result with successful false also has an
\* error that starts with a status code and "::" and an advice.reconnect among
\* retry, handshake and none
C17_ResultFields ==
    Replied /\ response.json
        => /\ response.channel # Absent
           /\ response.successful \in {"true", "false"}
           /\ response.successful = "false"
                => /\ Len(response.error) >= 2
                   /\ response.error[1] \in StatusCodes
                   /\ response.reconnect \in {"retry", "handshake", "none"}

-----------------------------------------------------------------------------
(* C19: a successful reply and the session it is about                     *)

\* C19 as claimed: with validation enabled, a connect, subscribe or unsubscribe
\* is answered with the successful response of its channel only if the session
\* of its clientId is in the store once the request completes; when the expiry
\* adapter removed it in the same request the reply is UnknownClientIdError
C19_SuccessOnlyForActive ==
    (/\ Replied /\ ~app.no_validation
     /\ FirstChannel(request) \in
            {"/meta/connect", "/meta/subscribe", "/meta/unsubscribe"})
        => /\ response.by \in {"connect", "subscribe", "unsubscribe"}
                => Named(request) \in DOMAIN client_ids
           /\ NamedActive /\ Named(request) \notin DOMAIN client_ids
                => UnknownClientIdError(response)

-----------------------------------------------------------------------------
(* C20: what changes a connection_count                                    *)

\* C20 as claimed: a request that is not a connect (a handshake, a subscribe,
\* an unsubscribe, a request on another channel) or that is rejected leaves the
\* connection_count of every session of the store as it was
C20_OnlyConnectCounts ==
    (/\ Replied
     /\ \/ FirstChannel(request) # "/meta/connect"
        \/ response.status = 400)
        => \A c \in DOMAIN before \cap DOMAIN client_ids :
                client_ids[c].connection_count = before[c].connection_count

-----------------------------------------------------------------------------
(* C18: the count and its comparison under concurrent connects             *)

\* no coroutine is suspended between its increment and its reply
Quiet == \A t \in Tasks : inflight.tasks[t].at \in {"free", "json", "done"}

\* C18: with requests in flight at the same time, each request is answered by
\* the advisory exactly when the count its own increment produced exceeds
\* reconnection_interval; whenever no coroutine is in the middle of a request
\* every count is at most max(reconnection_interval, 1); and every count is 1
\* plus the number of requests counted on the session since it was last 1, so
\* no increment is lost
C18_CountStepAtomic ==
    /\ \A t \in Tasks :
          inflight.tasks[t].at = "done" /\ inflight.tasks[t].seen > 0
            => (inflight.tasks[t].reply.by = "force_reconnect"
                    <=> inflight.tasks[t].seen > app.reconnection_interval)
    /\ Quiet => \A c \in DOMAIN client_ids :
                    client_ids[c].connection_count
                        <= Max(app.reconnection_interval, 1)
    /\ \A c \in DOMAIN client_ids :
          c \in DOMAIN inflight.counted
            => client_ids[c].connection_count = 1 + inflight.counted[c]

\* two connects on one clientId were in flight together: the one that ran
\* while the other waited for its body got the normal reply at the threshold,
\* the other the advisory, and the count is back at 1
C18_Witness ==
    \E t \in Tasks : \E u \in Tasks \ {t} :
        /\ inflight.tasks[t].at = "done" /\ inflight.tasks[u].at = "done"
        /\ inflight.tasks[t].raced
        /\ FirstChannel(inflight.tasks[t].body) = "/meta/connect"
        /\ inflight.tasks[u].body = inflight.tasks[t].body
        /\ inflight.tasks[t].seen = app.reconnection_interval
        /\ inflight.tasks[t].reply.by = "connect"
        /\ inflight.tasks[u].seen = app.reconnection_interval + 1
        /\ inflight.tasks[u].reply.by = "force_reconnect"
        /\ client_ids[Named(inflight.tasks[t].body)].connection_count = 1

-----------------------------------------------------------------------------
(* C21: subscribe and unsubscribe on a session of the store                *)

\* C21 as claimed: in every reachable state a subscribe or unsubscribe that
\* names a session of the store (and, with validation enabled, is well formed)
\* is answered with HTTP 200, its own channel, successful true and the
\* subscription of the request verbatim
C21_SubscribeEchoes ==
    (/\ Replied /\ request.kind = "list" /\ Len(request.msgs) = 1
     /\ FirstChannel(request) \in {"/meta/subscribe", "/meta/unsubscribe"}
     /\ NamedActive
     /\ Get(request.msgs[1], "subscription") # Absent
     /\ app.no_validation \/ WellFormed(request))
        => /\ response.status = 200 /\ response.successful = "true"
           /\ response.channel = FirstChannel(request)
           /\ response.subscription = Get(request.msgs[1], "subscription")

-----------------------------------------------------------------------------
(* C22: a channel the dispatch does not know                               *)

\* C22 as claimed: a request that passes the validators and whose first
\* message is on none of the five meta channels is answered with HTTP 404,
\* successful false and the error 404::Unknown Channel
C22_UnknownChannel404 ==
    (/\ Replied /\ ~app.no_validation
     /\ WellFormed(request) /\ NamedActive
     /\ FirstChannel(request) \notin MetaChannels)
        => /\ response.status = 404 /\ response.successful = "false"
           /\ response.error = <<"404", "Unknown Channel">>

-----------------------------------------------------------------------------
(* C23: the handshake response                                             *)

\* C23 as claimed: a valid handshake is answered with HTTP 200 and a result
\* with the id of the request, the channel /meta/handshake, successful true,
\* version 1.0, supportedConnectionTypes [long-polling], a clientId that is in
\* the store afterwards, and the advice reconnect retry, interval 0 and timeout
\* the configured connect_timeout
C23_HandshakeResponse ==
    (/\ Replied /\ FirstChannel(request) = "/meta/handshake"
     /\ WellFormed(request)
     /\ Get(request.msgs[1], "id") # Absent)
        => /\ response.status = 200 /\ response.successful = "true"
           /\ response.id = Get(request.msgs[1], "id")
           /\ response.channel = "/meta/handshake"
           /\ response.version = "1.0"
           /\ response.supportedConnectionTypes = "long-polling"
           /\ response.clientId \in DOMAIN client_ids
           /\ response.reconnect = "retry"
           /\ response.interval = 0
           /\ response.timeout = app.connect_timeout

-----------------------------------------------------------------------------
(* C24: the connect response                                               *)

\* the request is a connect that names an active session, passes the loaded
\* validators and is not due the reconnect advisory
ConnectNoAdvisory ==
    /\ Replied /\ FirstChannel(request) = "/meta/connect"
    /\ NamedActive
    /\ app.no_validation \/ WellFormed(request)
    /\ ~AdvisoryDue
    /\ Get(request.msgs[1], "id") # Absent

\* the normal connect response of the claim
ConnectResponse ==
    LET advice == Get(request.msgs[1], "advice")
    IN  /\ response.by = "connect"
        /\ response.status = 200 /\ response.successful = "true"
        /\ response.id = Get(request.msgs[1], "id")
        /\ response.channel = "/meta/connect"
        /\ response.clientId = Named(request)
        /\ response.interval = app.connect_interval
        /\ response.timeout = app.connect_timeout
        /\ response.reconnect = IF advice \in {Absent, NoReconnect}
                                    THEN Absent ELSE advice

\* C24 as claimed: a connect on an active session that does not trigger the
\* advisory is answered with HTTP 200 and a result with the id of the request,
\* the channel /meta/connect, the clientId, successful true, and advice with the
\* configured connect_interval and connect_timeout, whose reconnect field is
\* present exactly when the advice of the request carried one, with that value
C24_ConnectResponse == ConnectNoAdvisory => ConnectResponse

\* C24 amended: the same, for a connect whose advice field is absent or an
\* object; an advice that is not a container is answered with the 500 envelope
C24_ConnectResponseObjectAdvice ==
    (ConnectNoAdvisory /\ Get(request.msgs[1], "advice") # NonString)
        => ConnectResponse

\* a connect with advice {reconnect: none} answered with the configured numbers
C24_Witness ==
    /\ ConnectNoAdvisory /\ ConnectResponse
    /\ Get(request.msgs[1], "advice") = "none"
    /\ response.reconnect = "none"
    /\ response.timeout # DefaultConnectTimeout
    /\ response.interval # DefaultConnectInterval

-----------------------------------------------------------------------------
(* C25: unset thresholds and thresholds set to 0                           *)

\* the request reaches the adapter chain naming an active session
ReachesAdapters ==
    /\ Replied /\ NonHandshake(request) /\ NamedActive
    /\ app.no_validation \/ WellFormed(request)

\* the sessions the request took out of the store
Removed == DOMAIN before \ DOMAIN client_ids

\* the age of the named session when the request arrived
Age == now - before[Named(request)].creation_time

\* C25: a threshold left unset never triggers and is not read as zero: with
\* both expiry thresholds unset a session leaves the store only through
\* disconnect, and with both reconnect thresholds unset no advisory is ever
\* produced; with only a time threshold set the unset count threshold next to
\* it triggers nothing (the advisory comes exactly when the age exceeds
\* reconnection_interval_seconds, the removal exactly when the age has reached
\* expire_client_ids_after_seconds); and a threshold set to 0 is enforced as 0:
\* reconnection_interval = 0 answers every request on an active session with
\* the advisory, expire_client_ids_after = 0 removes the session on its first
\* request (the expiry adapter is only consulted when the reconnect adapter
\* before it has not answered)
C25_UnsetNeverTriggers ==
    Replied =>
        /\ (/\ app.expire_client_ids_after = Unset
            /\ app.expire_client_ids_after_seconds = Unset)
                => /\ Removed \subseteq {Named(request)}
                   /\ Removed # {} => response.by = "disconnect"
        /\ (/\ app.reconnection_interval = Unset
            /\ app.reconnection_interval_seconds = Unset)
                => response.by # "force_reconnect"
        /\ ReachesAdapters =>
            /\ app.reconnection_interval = 0 => response.by = "force_reconnect"
            /\ (/\ app.reconnection_interval = Unset
                /\ app.reconnection_interval_seconds # Unset)
                    => (response.by = "force_reconnect"
                            <=> Age > app.reconnection_interval_seconds)
            /\ (/\ app.expire_client_ids_after = 0
                /\ response.by # "force_reconnect")
                    => Named(request) \in Removed
            /\ (/\ app.expire_client_ids_after = Unset
                /\ response.by # "force_reconnect"
                /\ app.expire_client_ids_after_seconds # Unset
                /\ FirstChannel(request) # "/meta/disconnect")
                    => (Named(request) \in Removed
                            <=> Age >= app.expire_client_ids_after_seconds)

\* a session of age 0 survives a connect while expire_client_ids_after_seconds
\* is 1 and expire_client_ids_after is unset, its count already 2
C25_Witness ==
    /\ ReachesAdapters /\ FirstChannel(request) = "/meta/connect"
    /\ app.expire_client_ids_after = Unset
    /\ app.expire_client_ids_after_seconds = 1
    /\ Age = 0
    /\ Named(request) \in DOMAIN client_ids
    /\ client_ids[Named(request)].connection_count = 2

-----------------------------------------------------------------------------
(* C26: the reply to an unknown clientId                                   *)

\* with validation on, the request is a non-handshake request naming a clientId
\* the store does not hold
NamesUnknown ==
    /\ Replied /\ ~app.no_validation
    /\ NonHandshake(request)
    /\ IsString(Named(request)) /\ ~NamedActive

\* the reply of the claim: 400, successful false, the error naming the clientId
\* and unknown_client_id, the advice handshake
UnknownClientIdReply ==
    /\ response.status = 400
    /\ UnknownClientIdError(response)
    /\ response.error[2] = Named(request)

\* C26 as claimed: with validation enabled, a non-handshake request whose
\* clientId is unknown to the store is answered with HTTP 400 and a result with
\* successful false, an error containing unknown_client_id and the clientId,
\* and advice.reconnect handshake
C26_UnknownClientIdReply ==
    (NamesUnknown /\ FirstChannel(request) \in MetaChannels)
        => UnknownClientIdReply

\* C26 amended: that is the answer when the batch passes the structural
\* validator, which runs first; a batch it rejects is answered with its
\* 400::bad_request error and advice.reconnect none, whatever the clientId
C26_UnknownClientIdAfterStructure ==
    NamesUnknown =>
        /\ WellFormed(request) =>
                /\ UnknownClientIdReply
                /\ response.by = "validate_client_id"
                /\ response.error[1] = "401"
        /\ ~WellFormed(request) =>
                /\ response.by = "validate_request"
                /\ response.status = 400 /\ response.successful = "false"
                /\ response.reconnect = "none"

\* a subscribe naming a clientId the server never issued is turned away
C26_Witness ==
    /\ NamesUnknown /\ WellFormed(request)
    /\ FirstChannel(request) = "/meta/subscribe"
    /\ Named(request) = Ghost
    /\ UnknownClientIdReply

-----------------------------------------------------------------------------
(* C27: bodies that are no JSON, or no non-empty list                      *)

\* the structural error envelope of the claim, with the given tag
ErrorEnvelope(tag) ==
    /\ response.status = 400 /\ response.json
    /\ response.channel = "/meta/error"
    /\ response.successful = "false"
    /\ response.error # <<>> /\ response.error[Len(response.error)] = tag
    /\ response.reconnect = "none"

\* C27 as claimed: with validation enabled, a body that does not parse as JSON
\* is answered with HTTP 400 and a result on the channel /meta/error with
\* successful false, an error tagged JSON_parse_error and advice.reconnect none;
\* a body that parses to anything but a non-empty list is answered with the
\* same envelope tagged invalid_payload
C27_ParseErrorEnvelope ==
    (Replied /\ ~app.no_validation) =>
        /\ request.kind = "unparseable" => ErrorEnvelope("JSON_parse_error")
        /\ (request.kind = "nonlist" \/ request = Batch(<<>>))
                => ErrorEnvelope("invalid_payload")

-----------------------------------------------------------------------------
(* C28: what a batch must be to get past the structural validator          *)

\* the conditions the claim puts on one message
ClaimedValidMessage(m) ==
    LET channel == Get(m, "channel")
    IN  /\ m.isObject
        /\ IsString(channel) /\ StartsWithSlash(channel)
        /\ channel # "/meta/handshake" => IsString(Get(m, "clientId"))
        /\ channel \in {"/meta/subscribe", "/meta/unsubscribe"}
                => \/ IsString(Get(m, "subscription"))
                   \/ Get(m, "subscription") = StringList
        /\ channel = "/meta/connect" => IsString(Get(m, "connectionType"))

\* the body is a non-empty list of messages that meet them
ClaimedValid(body) ==
    /\ body.kind = "list" /\ body.msgs # <<>>
    /\ \A i \in DOMAIN body.msgs : ClaimedValidMessage(body.msgs[i])

\* C28: with validation enabled, a batch gets past the structural validator, to
\* the clientId check, the adapter chain and the handler, exactly if every
\* message is an object whose channel is a string starting with "/", every
\* message on a channel other than /meta/handshake carries a string clientId,
\* every subscribe/unsubscribe message a subscription that is a string or a
\* list of strings and every connect message a string connectionType; any other
\* batch is answered with a 400 error result with advice.reconnect none and
\* leaves the store as it was
C28_OnlyValidBatchesPass ==
    (Replied /\ ~app.no_validation) =>
        /\ response.by # "validate_request" <=> ClaimedValid(request)
        /\ ~ClaimedValid(request) =>
                /\ response.status = 400 /\ response.json
                /\ response.successful = "false"
                /\ response.reconnect = "none"
                /\ Len(response.error) = 2 /\ response.error[1] = "400"
                /\ client_ids = before

\* a batch whose first message is a valid subscribe on an active session and
\* whose second is a connect without connectionType is rejected as a whole
C28_Witness ==
    /\ Replied /\ ~app.no_validation
    /\ Len(request.msgs) = 2 /\ NamedActive
    /\ ClaimedValidMessage(request.msgs[1])
    /\ FirstChannel(request) = "/meta/subscribe"
    /\ Get(request.msgs[2], "channel") = "/meta/connect"
    /\ ~ClaimedValid(request)
    /\ response.by = "validate_request" /\ response.status = 400
    /\ response.reconnect = "none"
    /\ client_ids = before

-----------------------------------------------------------------------------
(* C29: the reconnect advisory by age                                      *)

\* a connect on an active session reaches the adapters while
\* reconnection_interval_seconds is set
TimedConnect ==
    /\ ReachesAdapters /\ FirstChannel(request) = "/meta/connect"
    /\ app.reconnection_interval_seconds # Unset
    /\ Get(request.msgs[1], "advice") # NonString

\* the age of the session and its count are within the reconnect thresholds
WithinThresholds ==
    /\ Age <= app.reconnection_interval_seconds
    /\ \/ app.reconnection_interval = Unset
       \/ Counted.connection_count <= app.reconnection_interval

-----------------------------------------------------------------------------
(* C30: batches of several messages                                        *)

\* the request is a batch of several messages that got past the validators
SeveralPassed ==
    /\ Replied /\ request.kind = "list" /\ Len(request.msgs) >= 2
    /\ response.by \notin {"validate_request", "validate_client_id", "fault"}

\* what the dispatch of process_request selects for a channel
HandlerOf(channel) ==
    CASE channel = "/meta/handshake" -> "handshake"
      [] channel = "/meta/connect" -> "connect"
      [] channel = "/meta/subscribe" -> "subscribe"
      [] channel = "/meta/unsubscribe" -> "unsubscribe"
      [] channel = "/meta/disconnect" -> "disconnect"
      [] OTHER -> "unknown_channel"

\* the sessions the request created, modified or removed
Touched ==
    {c \in DOMAIN before \cup DOMAIN client_ids :
        \/ c \notin DOMAIN before
        \/ c \notin DOMAIN client_ids
        \/ before[c] # client_ids[c]}

\* what the server would have done with the first message alone
FirstAlone ==
    process_request(validators, adapters,
                    IF response.by = "handshake" THEN SessionId(issued)
                        ELSE SessionId(issued + 1),
                    200, app, before, now, Batch(<<request.msgs[1]>>))

\* C30 as claimed: for a batch of several messages that passes validation,
\* exactly one handler runs, the one selected by the channel of the first
\* message; the reply has one result and at most one session is created,
\* modified or removed
C30_OneHandlerRuns ==
    SeveralPassed =>
        /\ response.by = HandlerOf(FirstChannel(request))
        /\ response.json
        /\ Cardinality(Touched) <= 1

\* C30 amended: at most one handler runs, the one selected by the channel of
\* the first message, and none when the reconnect adapter answers the request
\* with its advisory; reply and store are those of a request made of the first
\* message alone, so the messages after the first are neither routed nor
\* counted, and at most one session is created, modified or removed: the one
\* the first message names or the one a handshake creates
C30_FirstMessageRoutes ==
    SeveralPassed =>
        /\ response.by \in {HandlerOf(FirstChannel(request)), "force_reconnect"}
        /\ response.json
        /\ response = FirstAlone.response
        /\ client_ids = FirstAlone.client_ids
        /\ Cardinality(Touched) <= 1
        /\ Touched \subseteq {Named(request), response.clientId}

\* of two disconnects in one batch, both on active sessions, only the first
\* takes its session out of the store
C30_Witness ==
    /\ SeveralPassed
    /\ FirstChannel(request) = "/meta/disconnect"
    /\ Get(request.msgs[2], "channel") = "/meta/disconnect"
    /\ {SessionId(1), SessionId(2)} \subseteq DOMAIN before
    /\ response.by = "disconnect"
    /\ Touched = {SessionId(1)}
    /\ SessionId(2) \in DOMAIN client_ids

-----------------------------------------------------------------------------
(* C31: one malformed message rejects the batch                            *)

\* the body is a list in which some message breaks a structural rule
SomeMalformed ==
    /\ Replied /\ request.kind = "list"
    /\ \E i \in DOMAIN request.msgs : ~ClaimedValidMessage(request.msgs[i])

\* the batch was turned away as a whole: one error result, no session created,
\* modified or removed, no clientId issued
RejectedWhole ==
    /\ response.by = "validate_request"
    /\ response.status = 400 /\ response.json
    /\ response.successful = "false"
    /\ client_ids = before
    /\ IssuedBefore = {SessionId(i) : i \in 1..issued}

\* C31 as claimed: if any message of a batch, at any position, violates a
\* structural rule, the whole batch is rejected with a single error result and
\* no session is created, modified or removed, even when the first message
\* alone would have been a valid handshake or connect (stated for that case:
\* the first message is valid, a later one is not)
C31_MalformedRejectsBatch ==
    (SomeMalformed /\ ClaimedValidMessage(request.msgs[1])) => RejectedWhole

\* C31 amended: that is so with validation enabled; with noValidation set the
\* batch is not checked and the first message is processed as if it were alone
C31_MalformedRejectsValidated ==
    SomeMalformed =>
        IF ~app.no_validation THEN RejectedWhole
        ELSE /\ response.by # "validate_request"
             /\ request.msgs[1].isObject =>
                    /\ response = FirstAlone.response
                    /\ client_ids = FirstAlone.client_ids

\* a valid connect on an active session followed by a value that is no object:
\* the batch is rejected and the session is not even counted
C31_Witness ==
    /\ SomeMalformed /\ ~app.no_validation
    /\ Len(request.msgs) = 2
    /\ ClaimedValidMessage(request.msgs[1])
    /\ FirstChannel(request) = "/meta/connect" /\ NamedActive
    /\ RejectedWhole

-----------------------------------------------------------------------------
(* C32: the chaos adapter                                                  *)

\* a non-handshake request got past the validators while chaos heads the chain
ReachesChaos ==
    /\ Replied /\ NonHandshake(request)
    /\ Len(adapters) >= 1 /\ adapters[1] = "chaos"
    /\ response.by \notin {"validate_request", "validate_client_id"}

\* the store as the validators left it: the named session counted once when
\* validation is on
AfterValidators ==
    IF ~app.no_validation /\ NamedActive
        THEN IncrementCount(before, Named(request)) ELSE before

\* C32: with the chaos adapter in the chain, every non-handshake request that
\* reaches the chain is answered by chaos with a status of its candidate set:
\* on 200 a result with successful true echoing id, channel and clientId of the
\* request (the clientId "unknown" when the request has none), otherwise a body
\* that is no JSON; the request is never passed on to a later adapter or to a
\* handler, so the store is as the validators left it and a session due for
\* expiry stays; a handshake is not shown to chaos
C32_ChaosAnswers ==
    /\ ReachesChaos =>
        /\ response.by = "chaos"
        /\ response.status \in CHAOS_RESPONSES
        /\ response.status = 200 =>
                /\ response.json /\ response.successful = "true"
                /\ response.id = ToJson(Get(request.msgs[1], "id"))
                /\ response.channel = ToJson(Get(request.msgs[1], "channel"))
                /\ response.clientId = GetOr(request.msgs[1], "clientId", "unknown")
                /\ response.error = <<>> /\ response.reconnect = Absent
        /\ response.status # 200 => ~response.json
        /\ client_ids = AfterValidators
    /\ (Replied /\ response.by = "chaos") => NonHandshake(request)
    /\ (/\ Replied /\ FirstChannel(request) = "/meta/handshake"
        /\ app.no_validation \/ WellFormed(request))
            => response.by = "handshake"

\* a disconnect on a session whose count has reached expire_client_ids_after is
\* answered 503 by chaos with a body that is no JSON; the session, which
\* both the expiry adapter after chaos and the handler would have removed, stays
C32_Witness ==
    /\ ReachesChaos /\ NamedActive
    /\ FirstChannel(request) = "/meta/disconnect"
    /\ adapters = <<"chaos", "expire">>
    /\ response.by = "chaos" /\ response.status = 503 /\ ~response.json
    /\ Named(request) \in DOMAIN client_ids
    /\ ExpireDue(app, client_ids[Named(request)], now)

-----------------------------------------------------------------------------
(* C33: the two threshold families at the boundary                         *)

\* the count or the age of the named session is strictly past a reconnect
\* threshold that is set
PastReconnect ==
    \/ /\ app.reconnection_interval # Unset
       /\ Counted.connection_count > app.reconnection_interval
    \/ /\ app.reconnection_interval_seconds # Unset
       /\ Age > app.reconnection_interval_seconds

\* the count or the age has reached an expiry threshold that is set
AtExpiry ==
    \/ /\ app.expire_client_ids_after # Unset
       /\ Counted.connection_count >= app.expire_client_ids_after
    \/ /\ app.expire_client_ids_after_seconds # Unset
       /\ Age >= app.expire_client_ids_after_seconds

\* C33: the reconnect advisory fires only when the count is strictly greater
\* than reconnection_interval or the age strictly greater than
\* reconnection_interval_seconds; at equality the request gets the response of
\* its channel and the count is not reset; expiry, consulted when the advisory
\* has not answered, removes the session as soon as the count is greater than
\* or equal to expire_client_ids_after or the age greater than or equal to
\* expire_client_ids_after_seconds
C33_BoundariesDiffer ==
    ReachesAdapters =>
        /\ response.by = "force_reconnect" <=> PastReconnect
        /\ ~PastReconnect =>
            /\ IsPlainConnect(request) => response.by = "connect"
            /\ Named(request) \in DOMAIN client_ids
                    => client_ids[Named(request)] = Counted
            /\ FirstChannel(request) # "/meta/disconnect"
                    => (Named(request) \notin DOMAIN client_ids <=> AtExpiry)

\* with both count thresholds at 2, the request that takes the count to 2 gets
\* the normal connect response, not the advisory, and the session is removed
C33_Witness ==
    /\ ReachesAdapters /\ IsPlainConnect(request)
    /\ app.reconnection_interval = 2 /\ app.expire_client_ids_after = 2
    /\ Counted.connection_count = 2
    /\ response.by = "connect" /\ response.reconnect = Absent
    /\ Named(request) \notin DOMAIN client_ids

-----------------------------------------------------------------------------
(* C34: the second pass over the adapters inside connect                   *)

\* the step answers a connect that names a session of the store
ConnectStep ==
    /\ response = NoResponse /\ response' # NoResponse
    /\ FirstChannel(request') = "/meta/connect"
    /\ Named(request') \in DOMAIN client_ids

\* the store after the validators and the dispatcher's pass of that step
FirstPass ==
    LET payload == ParsePayload(request')
        checked == run_validators(validators, app, client_ids, payload)
    IN  IF IsResponse(checked.response) THEN checked
        ELSE run_adapters(adapters, 200, app, checked.client_ids, now, payload)

\* the validators and the dispatcher's pass have let the connect through to the
\* handler
ConnectHandled == ConnectStep /\ ~IsResponse(FirstPass.response)

\* the handler of that step without its own pass over the adapters
WithoutSecondPass ==
    connect(<<>>, 200, app, FirstPass.client_ids, now', ParsePayload(request'))

\* the count of the named session moves by one increment at most, or to 1 by
\* one reset
CountedOnce ==
    LET c == Named(request')
    IN  c \in DOMAIN client_ids' =>
            client_ids'[c].connection_count \in
                {client_ids[c].connection_count,
                 client_ids[c].connection_count + 1, 1}

\* C34 as claimed: within one connect request the count is incremented at most
\* once and the advisory with its reset applied at most once, and the second
\* pass over the adapters made inside the connect handler changes neither the
\* store nor the reply compared with not making it
C34_SecondPassIdle ==
    [][/\ ConnectStep => CountedOnce
       /\ ConnectHandled =>
            /\ response' = WithoutSecondPass.response
            /\ client_ids' = WithoutSecondPass.client_ids]_vars

\* C34 amended: the count is incremented at most once and the advisory applied
\* at most once; the second pass changes neither the store nor the reply unless
\* the clock has moved past a time threshold between the two passes, in which
\* case the second pass gives the advisory or removes the session although the
\* first did neither
C34_SecondPassIdleSameClock ==
    [][/\ ConnectStep => CountedOnce
       /\ (ConnectStep /\ ~ConnectHandled) =>
            /\ response' = FirstPass.response
            /\ client_ids' = FirstPass.client_ids
       /\ ConnectHandled =>
            /\ (\/ now' = now
                \/ /\ app.reconnection_interval_seconds = Unset
                   /\ app.expire_client_ids_after_seconds = Unset)
                    => /\ response' = WithoutSecondPass.response
                       /\ client_ids' = WithoutSecondPass.client_ids
            /\ response'.by = "force_reconnect" =>
                    /\ now' # now
                    /\ app.reconnection_interval_seconds # Unset
                    /\ now' - client_ids[Named(request')].creation_time
                            > app.reconnection_interval_seconds
                    /\ client_ids'[Named(request')].connection_count = 1]_vars

\* a connect on a session the dispatcher's pass has just expired by count is
\* answered by the handler, whose own pass finds no session to act on
C34_Witness ==
    /\ Replied /\ IsPlainConnect(request) /\ NamedActive
    /\ adapters = <<"reconnect", "expire">>
    /\ app.expire_client_ids_after = 2
    /\ response.by = "connect"
    /\ Named(request) \notin DOMAIN client_ids

-----------------------------------------------------------------------------
(* C35: a request touches the session it names and no other                *)

\* the step is the processing of a request
RequestStep == response = NoResponse /\ response' # NoResponse

\* C35: processing a request changes no session other than the one named by the
\* clientId of the first message, plus the one new session a handshake adds:
\* count, creation time and presence of every other session are unchanged; no
\* step that is not a request (the passing of time, the sending of a reply)
\* changes the store, so a session that is due for expiry is removed only by a
\* request that names it
C35_OtherSessionsUntouched ==
    [][/\ \A c \in DOMAIN client_ids :
            (~RequestStep \/ c # Named(request'))
                => /\ c \in DOMAIN client_ids'
                   /\ client_ids'[c] = client_ids[c]
       /\ \A c \in DOMAIN client_ids' \ DOMAIN client_ids :
            /\ RequestStep /\ response'.by = "handshake"
            /\ c = response'.clientId
            /\ DOMAIN client_ids' = DOMAIN client_ids \cup {c}]_vars

\* a request on one session has removed it by age while the other session, as
\* old and as due, is still in the store
C35_Witness ==
    /\ Replied /\ NamedActive
    /\ Named(request) = SessionId(1)
    /\ SessionId(1) \notin DOMAIN client_ids
    /\ response.by # "disconnect"
    /\ SessionId(2) \in DOMAIN client_ids
    /\ client_ids[SessionId(2)] = before[SessionId(2)]
    /\ ExpireDue(app, client_ids[SessionId(2)], now)

-----------------------------------------------------------------------------
(* C36: expiry by count next to the reconnect advisory                     *)

\* a well-formed connect naming the first session has just been answered
ConnectOnFirst ==
    /\ Replied /\ IsPlainConnect(request)
    /\ Named(request) = SessionId(1)

\* C36 as claimed: with expire_client_ids_after set, a session on which
\* connects keep arriving is eventually removed from the store, whatever
\* reconnection_interval is: with validation on and the two count thresholds
\* the only ones set, if connects on the first session are answered again and
\* again, then again and again the session is not in the store (once removed
\* it never returns)
C36_EventuallyExpired ==
    (/\ ~app.no_validation
     /\ app.expire_client_ids_after # Unset
     /\ app.reconnection_interval # Unset
     /\ app.reconnection_interval_seconds = Unset
     /\ app.expire_client_ids_after_seconds = Unset
     /\ []<>ConnectOnFirst)
        => []<>(SessionId(1) \notin DOMAIN client_ids)

-----------------------------------------------------------------------------
(* C37: a session is never stuck on advisories                             *)

\* the request on the first session has been answered by the advisory
AdvisedFirst ==
    /\ Replied /\ Named(request) = SessionId(1)
    /\ response.by = "force_reconnect"

\* a connect on the first session has been answered by the connect handler
NormalConnectOnFirst == ConnectOnFirst /\ response.by = "connect"

\* a disconnect on the first session has been answered and the session is still
\* in the store
DisconnectKeptFirst ==
    /\ Replied /\ request.kind = "list" /\ Len(request.msgs) = 1
    /\ FirstChannel(request) = "/meta/disconnect"
    /\ Named(request) = SessionId(1)
    /\ SessionId(1) \in DOMAIN client_ids

\* C37 as claimed: a session is never stuck receiving advisories: once an
\* advisory has been returned for a clientId, by count or by age, and connects
\* on that clientId keep arriving, one of them is answered with the normal
\* connect response; and a disconnect on it that comes after the advisory
\* removes the session
C37_NeverStuck ==
    /\ ([]<>ConnectOnFirst) => [](AdvisedFirst => <>NormalConnectOnFirst)
    /\ [](AdvisedFirst => []~DisconnectKeptFirst)

-----------------------------------------------------------------------------
(* C38: the chains after create_app                                        *)

\* C38 as claimed: every call of create_app leaves the validator chain and the
\* adapter chain of the process equal to exactly the components named, in the
\* order given, the second and later calls as well as the first and also when
\* the names differ between calls
C38_ChainsAsNamed ==
    /\ validators = ParseArgsValidators(app)
    /\ adapters = ParseArgsAdapters(app)

=============================================================================
